---- MODULE Spec2Model ----
(***************************************************************************)
(* A model of the Asterisk Management Interface core of pystrix            *)
(* (src/pystrix/ami/ami.py): the Manager, its event dispatcher thread, the *)
(* _MessageReader thread, _Aggregate and _Request.                         *)
(*                                                                         *)
(* Threads: the application thread (send_action, register_callback,        *)
(* unregister_callback), the reader thread (_MessageReader.run) and the    *)
(* dispatcher thread (Manager._event_dispatcher).  The Asterisk server is  *)
(* the environment: it may send any message at any time.  A step of a      *)
(* thread is one stretch of code whose effects on shared state cannot be   *)
(* told apart from an atomic execution (the sub-steps take different locks *)
(* and commute with the other threads' steps).                             *)
(*                                                                         *)
(* Time passes in ticks.  A deadline (time.time() + timeout) is kept as    *)
(* the number of ticks left until it: it is set to the timeout, a tick     *)
(* takes one off every deadline that has not passed, and "deadline <= now" *)
(* reads "no tick left".  One tick stands for the default length of the    *)
(* three timeouts (5 seconds each).                                        *)
(***************************************************************************)
EXTENDS Integers, Sequences, FiniteSets, TLC

\* ------------------------------------------------------------------ bounds
MaxMsgs == 2    \* messages the server sends during a run
MaxCalls == 2   \* send_action calls the application makes
MaxRegs == 3    \* register_callback / unregister_callback calls
MaxConnects == 2   \* sockets the application has the manager construct
MaxSends == 2      \* send_action calls made while the connection comes and goes
MaxIds == 4        \* ActionIDs generated during a run
MaxTimeouts == 2   \* read timeouts of a reader that are told apart
MaxExecutes == 2   \* calls of execute on an AGI engine
MaxReads == 3      \* lines one call of execute reads
MaxLines == 2      \* lines of one message that read_message tells apart

\* ------------------------------------------------------- program constants
CALLBACK_TYPE_REFERENCE == 1
CALLBACK_TYPE_UNIVERSAL == 2
CALLBACK_TYPE_ORPHANED == 3
\* Manager.__init__(aggregate_timeout=5, orphaned_response_timeout=5) and
\* _Request.timeout = 5, in ticks
AGGREGATE_TIMEOUT == 1
ORPHANED_RESPONSE_TIMEOUT == 1
REQUEST_TIMEOUT == 1
\* event_aggregate_cycle = 50: idle dispatcher cycles between two reap passes
REAP_CYCLE == 50

KEY_EVENT == "Event"
KEY_RESPONSE == "Response"

\* Manager._get_action_id compares with 0xFFFFFFFF = WORD * WORD - 1; the
\* counter is kept as two 16-bit halves [hi, lo]
WORD == 65536

\* ActionIDs that appear in a run, as build_request resolves them (given by
\* the caller, taken from the request, or generated), and the absent ActionID
ActionIDs == {"a1", "a2"}
NoId == "None"

\* _EVENT_REGISTRY: the event classes of core_events the model uses. An event
\* class is written as its registered name.
EventNames == {"Newchannel", "CoreShowChannel", "CoreShowChannelsComplete"}
ResponseNames == {"Success", "Error"}

\* A dict that is keyed by event class and by event name (events maps and
\* aggregates) has two keys per class.
ClassKey(c) == <<"class", c>>
\* _EVENT_REGISTRY_REV.get(c): the name key of class c
EVENT_REGISTRY_REV(c) == <<"name", c>>
Keys == {ClassKey(c) : c \in EventNames} \cup {EVENT_REGISTRY_REV(c) : c \in EventNames}

\* A value of such a dict: kind "absent" (no such key), "slot" (None when val
\* is empty, else the one event), "list" (a Python list). Events are stored by
\* their serial number.
Absent == [kind |-> "absent", val |-> <<>>]
NoneSlot == [kind |-> "slot", val |-> <<>>]
EmptyList == [kind |-> "list", val |-> <<>>]
EventSlot(id) == [kind |-> "slot", val |-> <<id>>]

\* _Message as the reader sees it: id is the serial number of the message on
\* the wire (its identity), kind the header it carries (Event or Response),
\* name its name property, aid its ActionID
\* The value of a count header (ListItems) as sent: not stated at all, stated
\* with text that is no number, or stated with a number
NoHeader == [stated |-> FALSE, number |-> FALSE, value |-> 0]
TextHeader == [stated |-> TRUE, number |-> FALSE, value |-> 0]
NumberHeader(n) == [stated |-> TRUE, number |-> TRUE, value |-> n]
NoMsg == [id |-> 0, kind |-> "None", name |-> "", aid |-> NoId, ListItems |-> NoHeader]
\* What the server may send: an event or a response, with or without ActionID
EventShapes == [kind : {KEY_EVENT}, name : EventNames, aid : ActionIDs \cup {NoId}]
ResponseShapes ==
    [kind : {KEY_RESPONSE}, name : ResponseNames, aid : ActionIDs \cup {NoId}]
Message(n, s) ==
    [id |-> n, kind |-> s.kind, name |-> s.name, aid |-> s.aid,
     ListItems |-> IF "ListItems" \in DOMAIN s THEN s.ListItems ELSE NoHeader]

\* _Aggregate subclasses: core_events.CoreShowChannels_Aggregate
aggregation_members(cls) == {"CoreShowChannel"}
aggregation_finalisers(cls) == {"CoreShowChannelsComplete"}

\* _Request values: core.CoreShowChannels with each setting of its aggregate
\* and synchronous attributes
CoreShowChannels(agg, sync) ==
    [action |-> "CoreShowChannels", aggregate |-> agg, synchronous |-> sync,
     timeout |-> REQUEST_TIMEOUT,
     aggregates |-> <<"CoreShowChannels_Aggregate">>,
     uniques |-> {}, lists |-> {"CoreShowChannel"},
     finalising |-> {"CoreShowChannelsComplete"}]
Requests == {CoreShowChannels(a, s) : a \in BOOLEAN, s \in BOOLEAN}

\* Callback functions of the application
Functions == {"f", "g"}

VARIABLES
    wire_count,                 \* messages read from the socket so far
    \* Manager
    event_callbacks,            \* _event_callbacks: list of (type, criterion, function)
    outstanding_requests,       \* _outstanding_requests, by ActionID
    event_aggregates,           \* _event_aggregates: list of (deadline, aggregate)
    \* _MessageReader
    event_queue,                \* event_queue
    response_queue,             \* response_queue (orphaned responses)
    served_requests,            \* _served_requests, by ActionID
    \* dispatcher thread (locals of _event_dispatcher and its two helpers)
    d_pc,                       \* where the thread is
    d_event,                    \* the event or response whose callbacks run
    d_callbacks,                \* callbacks gathered and not yet invoked
    d_worked,                   \* _event_dispatcher_events returned True
    event_aggregates_complete,  \* deque of finalised aggregates
    event_aggregate_cycle,      \* countdown to the next reap pass
    \* application thread (locals of send_action / register_callback)
    a_pc,                       \* where the thread is
    a_request, a_action_id, a_response, a_success, a_events_timeout,
    a_timeout,                  \* ticks left until send_action's deadline
    a_definition,               \* the callback definition being registered
    calls,                      \* send_action calls begun
    regs,                       \* register / unregister calls begun
    result,                     \* what the last send_action call returned
    \* history
    h_stamp,                    \* per callback definition: the call that last registered it
    h_registry,                 \* event_callbacks (with stamps) as last gathered from
    h_invoked,                  \* callbacks invoked so far for d_event
    h_raised,                   \* the callback invoked last raised an exception
    h_delivered,                \* serials of the wire events given to a callback
    h_consumed,                 \* d_event was stored in an aggregate
    h_ended_by,                 \* ActionID of the aggregate that ended the offering of d_event
    h_outstanding_at_parse,     \* responses whose ActionID was outstanding when parsed
    h_late_at_parse,            \* responses parsed after their request had timed out
    h_timed_out,                \* ActionIDs whose last send_action call timed out
    h_returned,                 \* per response: how many times send_action returned it
    h_orphaned,                 \* per response: how many times it was put on response_queue
    h_expired,                  \* responses whose hold time was over when the reader cleaned
    h_duplicate,                \* responses read while one was held for their ActionID
    h_before,                   \* event_callbacks when the last registry call began
    h_call                      \* the last registry call that returned, its value, and
                                \* whether it undid the registration made just before it

\* The connection of the manager: its sockets, its reader threads, the life of
\* its dispatcher thread and the ActionIDs it hands out
VARIABLES
    \* Manager
    connection,                 \* _connection: 0 (None) or the socket in use
    message_reader,             \* _message_reader: 0 (None) or the latest reader
    alive,                      \* _alive
    action_id_counter,          \* _action_id
    dispatcher_running,         \* _event_callbacks_thread has not ended
    \* _SynchronisedSocket, per socket constructed
    sockets,                    \* sockets constructed so far
    connected,                  \* _connected
    eof,                        \* the peer has closed its end of the stream
    \* _MessageReader, per reader (the reader started with socket i is reader i)
    r_alive,                    \* _alive
    r_pc,                       \* position of the thread in run()
    r_socket,                   \* the local `socket` of run()
    \* a thread in send_action
    s_pc,                       \* position in send_action
    s_supplied,                 \* the action_id argument
    s_own,                      \* the request's own 'ActionID' entry
    s_key,                      \* the action_id build_request returned
    sends,                      \* send_action calls begun
    \* a thread in connect / disconnect / close
    c_pc,                       \* position in close()
    \* history
    h_command,                  \* the ActionID headers of the last command built
    h_ids,                      \* the values _get_action_id has returned, in order
    h_op,                       \* the socket operation made in the last step, and how it ended
    h_timeouts,                 \* per reader: read timeouts so far (saturating)
    h_closed                    \* the close / disconnect call that returned in the last step

\* The AGI engine of a script (src/pystrix/agi): one thread that calls execute,
\* and the SIGHUP handler, which may run between any two of its steps
VARIABLES
    got_sighup,                 \* AGI._got_sighup
    environment,                \* _AGI._environment.get('AGISIGHUP', 'no')
    wfile,                      \* the command lines written to _wfile
    g_pc,                       \* where the script thread is
    g_action,                   \* execute: the action in hand
    g_usage,                    \* _get_result: the usage lines gathered (code 520)
    g_outcome,                  \* how the latest execute ended
    executes,                   \* calls of execute
    h_sighup_at_call,           \* _got_sighup was set when execute was called
    h_line,                     \* the line _get_result has parsed in this call
    h_got,                      \* what _get_result has given in this call
    h_reads,                    \* lines read in this call
    h_writes                    \* command lines written in this call

\* One _SynchronisedSocket seen at the grain of its two locks: a thread in
\* read_message, a thread in send_message, and a thread that calls close or
\* is_connected
VARIABLES
    socket_read_lock,           \* _socket_read_lock: the thread that holds it
    socket_write_lock,          \* _socket_write_lock: the thread that holds it
    socket_connected,           \* _connected
    t_pc,                       \* per thread: where it is
    t_op,                       \* per thread: the method it is in
    t_outcome,                  \* per thread: how its latest call ended
    response_lines,             \* read_message: lines collected (saturating)
    wait_for_marker,            \* read_message: wait_for_marker
    h_access,                   \* the latest access to _connected and the locks held
    h_partial                   \* lines the latest read_message had collected when it timed out

\* The threads of a manager seen at the grain of their lock operations
VARIABLES
    l_pc,                       \* per thread: the routine it runs and its place in it
    l_ret,                      \* per thread: where the routine it runs was called from
    l_held,                     \* per lock: the thread that holds it
    h_order                     \* pairs (a, b): b has been acquired by a thread holding a

order_vars == <<l_pc, l_ret, l_held, h_order>>

\* A second application thread, in register_callback
VARIABLES
    b_pc,                       \* where the thread is
    b_definition                \* the callback definition it is registering

second_vars == <<b_pc, b_definition>>

lock_vars == <<socket_read_lock, socket_write_lock, socket_connected, t_pc, t_op,
               t_outcome, response_lines, wait_for_marker, h_access, h_partial>>

agi_vars == <<got_sighup, environment, wfile, g_pc, g_action, g_usage, g_outcome,
              executes, h_sighup_at_call, h_line, h_got, h_reads, h_writes>>

\* The variables of the Manager, its threads and its sockets
manager_vars == <<wire_count, event_callbacks, outstanding_requests, event_aggregates,
          event_queue, response_queue, served_requests, d_pc, d_event, d_callbacks,
          d_worked, event_aggregates_complete, event_aggregate_cycle, a_pc, a_request,
          a_action_id, a_response, a_success, a_events_timeout, a_timeout,
          a_definition, calls, regs, result, h_stamp, h_registry, h_invoked,
          h_delivered, h_consumed, h_ended_by, h_outstanding_at_parse,
          h_late_at_parse, h_timed_out, h_returned, h_orphaned, h_expired,
          h_duplicate, h_before, h_call, h_raised,
          connection, message_reader, alive, action_id_counter, dispatcher_running,
          sockets, connected, eof, r_alive, r_pc, r_socket, s_pc, s_supplied, s_own,
          s_key, sends, c_pc, h_command, h_ids, h_op, h_timeouts,
          h_closed>>

ami_vars == <<manager_vars, lock_vars, second_vars, order_vars>>

vars == <<ami_vars, agi_vars>>

\* the connection of the manager
connection_vars == <<connection, message_reader, alive, action_id_counter,
                     dispatcher_running, sockets, connected, eof, r_alive, r_pc,
                     r_socket, s_pc, s_supplied, s_own, s_key, sends, c_pc, h_command,
                     h_ids, h_op, h_timeouts, h_closed>>
\* what the messaging actions leave alone
session_vars == <<connection_vars, agi_vars, lock_vars, second_vars, order_vars>>
\* what the connection actions leave alone
messaging_vars == <<wire_count, event_callbacks, event_aggregates, event_queue,
                    response_queue, served_requests, d_pc, d_event, d_callbacks,
                    d_worked, event_aggregates_complete, event_aggregate_cycle, a_pc,
                    a_request, a_action_id, a_response, a_success, a_events_timeout,
                    a_timeout, a_definition, calls, regs, result, h_stamp, h_registry,
                    h_invoked, h_delivered, h_consumed, h_ended_by,
                    h_outstanding_at_parse, h_late_at_parse, h_timed_out, h_returned,
                    h_orphaned, h_expired, h_duplicate, h_before, h_call, h_raised,
                    agi_vars, lock_vars, second_vars, order_vars>>

registry_vars == <<event_callbacks, h_stamp, a_definition, regs, h_before, h_call>>
dispatcher_vars == <<d_pc, d_event, d_callbacks, d_worked, event_aggregates_complete,
                     event_aggregate_cycle>>
send_vars == <<a_request, a_action_id, a_response, a_success, a_events_timeout, calls,
               result>>
dispatch_history == <<h_registry, h_invoked, h_delivered, h_consumed, h_ended_by,
                      h_raised>>
response_history == <<h_outstanding_at_parse, h_late_at_parse, h_returned, h_orphaned,
                      h_expired, h_duplicate>>


\* ----------------------------------------------------------------- helpers
\* The orders in which a loop over a dict may visit the keys in S
Orderings(S) ==
    {o \in [1..Cardinality(S) -> S] : \A i, j \in 1..Cardinality(S) : i # j => o[i] # o[j]}

\* list without the element at index i (del list[i])
Remove(list, i) == [j \in 1..(Len(list) - 1) |-> IF j < i THEN list[j] ELSE list[j + 1]]

NoKeys == [k \in Keys |-> Absent]
NoServed == [present |-> FALSE, msg |-> NoMsg, timeout |-> 0]
NoRequest == [state |-> "absent", events |-> NoKeys, pending |-> {}]
NoResult == [kind |-> "none", response |-> NoMsg, request |-> CoreShowChannels(FALSE, FALSE), action_id |-> NoId,
             success |-> FALSE, events |-> NoKeys, has_events |-> FALSE,
             events_timeout |-> FALSE]

\* Callback definitions: (type, event name or None, function)
CallbackDefinitions ==
    ({CALLBACK_TYPE_REFERENCE} \X EventNames \X Functions)
    \cup ({CALLBACK_TYPE_UNIVERSAL, CALLBACK_TYPE_ORPHANED} \X {NoId} \X Functions)

\* The callbacks the application registers before it connects, in the order
\* the constructor's docstring asks for ("register any necessary callbacks,
\* then call connect()")
StartCallbacks ==
    << <<CALLBACK_TYPE_REFERENCE, "Newchannel", "f">>,
       <<CALLBACK_TYPE_UNIVERSAL, NoId, "g">>,
       <<CALLBACK_TYPE_ORPHANED, NoId, "f">> >>

\* -------------------------------------------------------------------- Init
\* Manager.__init__ and _MessageReader.__init__, after connect()
\* ------------------------------------------------------------ connection
Sockets == 1..MaxConnects

\* Values of Manager._action_id
Zero == [hi |-> 0, lo |-> 0]
One == [hi |-> 0, lo |-> 1]
ACTION_ID_MAX == [hi |-> WORD - 1, lo |-> WORD - 1]
\* the counter of a manager that has generated 0xFFFFFFFE ActionIDs
LongRunning == [hi |-> WORD - 1, lo |-> WORD - 2]

\* v + 1
Successor(v) ==
    IF v.lo = WORD - 1 THEN [hi |-> v.hi + 1, lo |-> 0] ELSE [hi |-> v.hi, lo |-> v.lo + 1]
\* v > w
Greater(v, w) == v.hi > w.hi \/ (v.hi = w.hi /\ v.lo > w.lo)

\* A generator whose counter starts again at 0
get_action_id_from_zero(counter) ==
    IF Greater(Successor(counter), ACTION_ID_MAX) THEN Zero ELSE Successor(counter)

\* Manager._get_action_id: the new value of the counter, which is returned
get_action_id(counter) ==
    IF Greater(Successor(counter), ACTION_ID_MAX) THEN One ELSE Successor(counter)

\* Manager._get_host_action_id: '%(hostname)s-%(random)s-%(id)08x', for the
\* values a run generates
get_host_action_id(id) ==
    CASE id = Zero -> "host-token-00000000"
      [] id = One -> "host-token-00000001"
      [] id = [hi |-> 0, lo |-> 2] -> "host-token-00000002"
      [] id = [hi |-> 0, lo |-> 3] -> "host-token-00000003"
      [] id = [hi |-> 0, lo |-> 4] -> "host-token-00000004"
      [] id = LongRunning -> "host-token-fffffffe"
      [] id = ACTION_ID_MAX -> "host-token-ffffffff"
      [] OTHER -> "host-token-other"

\* The keys _outstanding_requests takes while the connection comes and goes:
\* ActionIDs of the application, None, and generated ones
SessionKeys ==
    ActionIDs \cup {NoId}
    \cup {get_host_action_id(id) : id \in {Zero, One, [hi |-> 0, lo |-> 2],
                                           [hi |-> 0, lo |-> 3],
                                           [hi |-> 0, lo |-> 4], LongRunning,
                                           ACTION_ID_MAX}}

\* h_op when no socket operation has been made
NoOp == [socket |-> 0, op |-> "none", outcome |-> "none"]

\* The histories of the connection, at the start
InitSessionHistory ==
    /\ s_pc = "idle"
    /\ s_supplied = NoId
    /\ s_own = NoId
    /\ s_key = NoId
    /\ sends = 0
    /\ c_pc = "idle"
    /\ h_command = <<>>
    /\ h_ids = <<>>
    /\ h_op = NoOp
    /\ h_timeouts = [i \in Sockets |-> 0]
    /\ h_closed = "none"

\* Manager.connect has returned: the first socket is connected and its reader
\* is reading
InitConnected ==
    /\ connection = 1
    /\ message_reader = 1
    /\ alive = TRUE
    /\ dispatcher_running = TRUE
    /\ sockets = 1
    /\ connected = [i \in Sockets |-> i = 1]
    /\ eof = [i \in Sockets |-> FALSE]
    /\ r_alive = [i \in Sockets |-> TRUE]
    /\ r_pc = [i \in Sockets |-> IF i = 1 THEN "readline" ELSE "unborn"]
    /\ r_socket = [i \in Sockets |-> IF i = 1 THEN 1 ELSE 0]
    /\ InitSessionHistory

\* Manager.__init__ has returned
InitConstructed ==
    /\ connection = 0
    /\ message_reader = 0
    /\ alive = TRUE
    /\ dispatcher_running = TRUE
    /\ sockets = 0
    /\ connected = [i \in Sockets |-> FALSE]
    /\ eof = [i \in Sockets |-> FALSE]
    /\ r_alive = [i \in Sockets |-> TRUE]
    /\ r_pc = [i \in Sockets |-> "unborn"]
    /\ r_socket = [i \in Sockets |-> 0]
    /\ InitSessionHistory

\* -------------------------------------------------------- lock operations
\* The locks of a Manager, of its _MessageReader and of its _SynchronisedSocket
Locks ==
    {"connection_lock", "action_id_lock", "event_aggregates_lock",
     "event_callbacks_lock", "served_requests_lock", "socket_read_lock",
     "socket_write_lock"}
\* Two application threads, the reader thread and the dispatcher thread
LockThreads == {"caller", "admin", "reader", "dispatcher"}
Idle == [routine |-> "idle", at |-> 0]

\* The application threads are outside the manager; the reader and the
\* dispatcher are at the head of their loops; no lock is held
InitOrder ==
    /\ l_pc = [t \in LockThreads |->
                 IF t = "reader" THEN [routine |-> "run", at |-> 1]
                 ELSE IF t = "dispatcher" THEN [routine |-> "_event_dispatcher", at |-> 1]
                 ELSE Idle]
    /\ l_ret = [t \in LockThreads |-> Idle]
    /\ l_held = [l \in Locks |-> "none"]
    /\ h_order = {}

\* ------------------------------------------------------ socket and locks
\* The threads that use the socket
SocketThreads == {"reader", "sender", "other"}
NoThread == "none"

NoAccess ==
    [thread |-> NoThread, by |-> "none", kind |-> "none", write_locked |-> FALSE,
     read_locked |-> FALSE]
NoEnd == [kind |-> "none", value |-> "none"]

\* The socket has been constructed: it is connected and its locks are free
InitLocks ==
    /\ socket_read_lock = NoThread
    /\ socket_write_lock = NoThread
    /\ socket_connected = TRUE
    /\ t_pc = [t \in SocketThreads |-> "idle"]
    /\ t_op = [t \in SocketThreads |-> "none"]
    /\ t_outcome = [t \in SocketThreads |-> NoEnd]
    /\ response_lines = 0
    /\ wait_for_marker = FALSE
    /\ h_access = NoAccess
    /\ h_partial = 0

\* -------------------------------------------------------------- AGI engine
\* No AGI engine has been constructed
InitScript ==
    /\ got_sighup = FALSE
    /\ environment = "no"
    /\ wfile = <<>>
    /\ g_pc = "new"
    /\ g_action = [name |-> "Answer", command |-> "ANSWER", check_hangup |-> TRUE]
    /\ g_usage = 0
    /\ g_outcome = [kind |-> "none", error |-> "", items |-> {},
                    value |-> [type |-> "none", data |-> ""]]
    /\ executes = 0
    /\ h_sighup_at_call = FALSE
    /\ h_line = [text |-> "none", digits |-> <<>>, tail |-> FALSE, pairs |-> <<>>]
    /\ h_got = [kind |-> "none", error |-> "", items |-> {},
                value |-> [type |-> "none", data |-> ""]]
    /\ h_reads = 0
    /\ h_writes = 0

\* -------------------------------------------------------------- messaging
\* The threads are at rest, the queues empty and the histories blank
InitDispatch ==
    /\ InitScript
    /\ InitLocks
    /\ b_pc = "idle"
    /\ b_definition = <<0, NoId, "f">>
    /\ InitOrder
    /\ wire_count = 0
    /\ event_queue = <<>>
    /\ response_queue = <<>>
    /\ served_requests = [a \in ActionIDs |-> NoServed]
    /\ d_pc = "events"
    /\ d_event = NoMsg
    /\ d_callbacks = <<>>
    /\ d_worked = FALSE
    /\ event_aggregates_complete = <<>>
    /\ event_aggregate_cycle = 0
    /\ a_pc = "idle"
    /\ a_request = CoreShowChannels(FALSE, FALSE)
    /\ a_action_id = NoId
    /\ a_response = NoMsg
    /\ a_success = FALSE
    /\ a_events_timeout = FALSE
    /\ a_timeout = 0
    /\ a_definition = <<0, NoId, "f">>
    /\ calls = 0
    /\ regs = 0
    /\ result = NoResult
    /\ h_registry = <<>>
    /\ h_invoked = <<>>
    /\ h_raised = FALSE
    /\ h_delivered = {}
    /\ h_consumed = FALSE
    /\ h_ended_by = NoId
    /\ h_outstanding_at_parse = {}
    /\ h_late_at_parse = {}
    /\ h_timed_out = {}
    /\ h_returned = [i \in 1..MaxMsgs |-> 0]
    /\ h_orphaned = [i \in 1..MaxMsgs |-> 0]
    /\ h_expired = {}
    /\ h_duplicate = {}
    /\ h_before = <<>>
    /\ h_call = [op |-> "none", definition |-> <<0, NoId, "f">>, returned |-> FALSE,
                 paired |-> FALSE]

\* No aggregate is pending
InitMessaging ==
    /\ InitDispatch
    /\ event_aggregates = <<>>

\* The state every specification of the messaging starts from
InitCommon ==
    /\ InitMessaging
    /\ outstanding_requests = [a \in ActionIDs |-> NoRequest]
    /\ InitConnected
    /\ action_id_counter = Zero

\* The application has registered its callbacks and connected
Init ==
    /\ InitCommon
    /\ event_callbacks = StartCallbacks
    /\ h_stamp = [d \in CallbackDefinitions |->
                    IF \E i \in 1..Len(StartCallbacks) : StartCallbacks[i] = d
                    THEN CHOOSE i \in 1..Len(StartCallbacks) : StartCallbacks[i] = d
                    ELSE 0]

\* The application has connected without registering anything
InitCallbacks ==
    /\ InitCommon
    /\ event_callbacks = <<>>
    /\ h_stamp = [d \in CallbackDefinitions |-> 0]

\* ------------------------------------------------------------------- clock
\* A deadline of which a tick is left
TimeLeft ==
    \E t \in {a_timeout} \cup {served_requests[a].timeout : a \in ActionIDs}
               \cup {event_aggregates[i].deadline : i \in 1..Len(event_aggregates)} :
        t > 0

Less(n) == IF n > 0 THEN n - 1 ELSE 0

\* Time passes: one tick less is left until every deadline
Tick ==
    /\ UNCHANGED session_vars
    /\ TimeLeft
    /\ a_timeout' = Less(a_timeout)
    /\ served_requests' =
          [a \in ActionIDs |-> [served_requests[a] EXCEPT !.timeout = Less(@)]]
    /\ event_aggregates' =
          [i \in 1..Len(event_aggregates) |->
              [event_aggregates[i] EXCEPT !.deadline = Less(@)]]
    /\ UNCHANGED <<wire_count, outstanding_requests, event_queue, response_queue,
                   registry_vars, dispatcher_vars, send_vars, a_pc, dispatch_history,
                   response_history, h_timed_out>>

\* ----------------------------------------------------------- reader thread
\* _MessageReader._clean_orphaned_responses: the ActionIDs whose response has
\* been held until its deadline (timeout <= current_time)
ExpiredActionIds(served) ==
    {a \in ActionIDs : served[a].present /\ served[a].timeout = 0}

\* ... their responses are put on response_queue in the order the dict yields them
CleanedQueue(queue, served, order) ==
    queue \o [i \in 1..Len(order) |-> served[order[i]].msg]

\* ... and deleted from _served_requests
CleanedServed(served) ==
    [a \in ActionIDs |-> IF a \in ExpiredActionIds(served) THEN NoServed ELSE served[a]]

\* A reader that holds no response: every response goes to response_queue
StoreResponse_orphaning(served, queue, message) ==
    [served |-> served, queue |-> Append(queue, message)]

\* _MessageReader.run, lines 1030-1034: a response with an ActionID is held in
\* _served_requests unless a response is held already for that ActionID
StoreResponse(served, queue, message) ==
    IF ~served[message.aid].present
    THEN [served |-> [served EXCEPT ![message.aid] =
                        [present |-> TRUE, msg |-> message,
                         timeout |-> ORPHANED_RESPONSE_TIMEOUT]],
          queue |-> queue]
    ELSE [served |-> served, queue |-> Append(queue, message)]

\* How often the message with serial number i occurs in a sequence
Count(seq, i) == Cardinality({j \in 1..Len(seq) : seq[j].id = i})

\* _MessageReader.run: one message that the server sends, of one of the given
\* shapes, is read from the socket and routed
ReaderRead(shapes) ==
    /\ UNCHANGED session_vars
    /\ wire_count < MaxMsgs
    /\ \E shape \in shapes :
        LET message == Message(wire_count + 1, shape) IN
        /\ wire_count' = wire_count + 1
        /\ IF message.kind = KEY_EVENT
           THEN /\ event_queue' = Append(event_queue, message)
                /\ UNCHANGED <<response_queue, served_requests, response_history>>
           ELSE /\ UNCHANGED event_queue
                /\ IF message.aid # NoId
                   THEN \E order \in Orderings(ExpiredActionIds(served_requests)) :
                          LET queue1 == CleanedQueue(response_queue, served_requests, order)
                              served1 == CleanedServed(served_requests)
                              stored == StoreResponse(served1, queue1, message)
                          IN  /\ served_requests' = stored.served
                              /\ response_queue' = stored.queue
                              /\ h_orphaned' = [i \in 1..MaxMsgs |->
                                    h_orphaned[i] + Count(stored.queue, i)
                                                  - Count(response_queue, i)]
                              /\ h_expired' = h_expired \cup
                                    {served_requests[a].msg.id : a \in
                                        {b \in ActionIDs : served_requests[b].present
                                                           /\ served_requests[b].timeout = 0}}
                              /\ h_duplicate' =
                                    IF served_requests[message.aid].present
                                       /\ served_requests[message.aid].timeout > 0
                                    THEN h_duplicate \cup {message.id}
                                    ELSE h_duplicate
                   ELSE /\ response_queue' = Append(response_queue, message)
                        /\ h_orphaned' = [h_orphaned EXCEPT ![message.id] = @ + 1]
                        /\ UNCHANGED <<served_requests, h_expired, h_duplicate>>
                /\ h_outstanding_at_parse' =
                      IF message.aid # NoId
                         /\ outstanding_requests[message.aid].state # "absent"
                      THEN h_outstanding_at_parse \cup {message.id}
                      ELSE h_outstanding_at_parse
                /\ h_late_at_parse' =
                      IF message.aid \in h_timed_out
                      THEN h_late_at_parse \cup {message.id}
                      ELSE h_late_at_parse
                /\ UNCHANGED h_returned
    /\ UNCHANGED <<outstanding_requests, event_aggregates, registry_vars,
                   dispatcher_vars, send_vars, a_pc, a_timeout, dispatch_history,
                   h_timed_out>>

\* ------------------------------------------------- application: send_action
\* Manager._add_outstanding_request, lines 579-586: the events map of a
\* synchronous request. Each loop assigns the class key and the name key; a
\* later loop overrides an earlier one.
SynchronousEvents(request) ==
    LET InClasses(k, cs) == \E c \in cs : k \in {ClassKey(c), EVENT_REGISTRY_REV(c)}
    IN  [k \in Keys |->
            IF InClasses(k, request.finalising) THEN NoneSlot
            ELSE IF InClasses(k, request.lists) THEN EmptyList
            ELSE IF InClasses(k, request.uniques) THEN NoneSlot
            ELSE Absent]

\* Manager._add_outstanding_request: (events, set(finalisers)) for a
\* synchronous request, None otherwise
add_outstanding_request(table, action_id, request) ==
    IF request.synchronous
    THEN [table EXCEPT ![action_id] =
            [state |-> "sync", events |-> SynchronousEvents(request),
             pending |-> request.finalising]]
    ELSE [table EXCEPT ![action_id] =
            [state |-> "async", events |-> NoKeys, pending |-> {}]]

\* A completion check that does not look at the pending finalisers
check_outstanding_request_complete_always(table, action_id) == TRUE

\* Manager._check_outstanding_request_complete
check_outstanding_request_complete(table, action_id) ==
    IF table[action_id].state # "sync"
    THEN TRUE
    ELSE table[action_id].pending = {}

\* A send_action that leaves its ActionID in the table
serve_outstanding_request_keeping(table, action_id) == table

\* Manager._serve_outstanding_request
serve_outstanding_request(table, action_id) ==
    IF table[action_id].state # "absent"
    THEN [table EXCEPT ![action_id] = NoRequest]
    ELSE table

\* A get_response that leaves the response in _served_requests
get_response_keeping(served, action_id) ==
    [response |-> IF served[action_id].present THEN served[action_id].msg ELSE NoMsg,
     served |-> served]

\* _MessageReader.get_response
get_response(served, action_id) ==
    IF served[action_id].present
    THEN [response |-> served[action_id].msg,
          served |-> [served EXCEPT ![action_id] = NoServed]]
    ELSE [response |-> NoMsg, served |-> served]

\* _Request.process_response, and the success send_action reads from it
process_response(response) == response.name \in {"Success", "Follows"}

\* _Aggregate.__init__
NewAggregate(cls, action_id) ==
    LET InClasses(k, cs) == \E c \in cs : k \in {ClassKey(c), EVENT_REGISTRY_REV(c)}
    IN  [name |-> cls, action_id |-> action_id,
         items |-> [k \in Keys |->
                      IF InClasses(k, aggregation_finalisers(cls)) THEN NoneSlot
                      ELSE IF InClasses(k, aggregation_members(cls)) THEN EmptyList
                      ELSE Absent],
         pending |-> aggregation_finalisers(cls), valid |-> TRUE]

\* A send_action that sets up the aggregates of every request that is not
\* synchronous, whatever its aggregate attribute
RequestAggregates_declared(request, action_id) ==
    IF ~request.synchronous
    THEN [i \in 1..Len(request.aggregates) |->
            [deadline |-> AGGREGATE_TIMEOUT,
             aggregate |-> NewAggregate(request.aggregates[i], action_id)]]
    ELSE <<>>

\* Manager.send_action, lines 516-519: the aggregates a request sets up
RequestAggregates(request, action_id) ==
    IF request.aggregate /\ ~request.synchronous
    THEN [i \in 1..Len(request.aggregates) |->
            [deadline |-> AGGREGATE_TIMEOUT,
             aggregate |-> NewAggregate(request.aggregates[i], action_id)]]
    ELSE <<>>

\* Manager.send_action, lines 508-512: the connection is up; the ActionID is
\* resolved and registered. The first call of a run uses the first ActionID
\* (the two are interchangeable).
SendActionBegin(requests) ==
    /\ UNCHANGED session_vars
    /\ a_pc = "idle"
    /\ calls < MaxCalls
    /\ \E request \in requests, action_id \in IF calls = 0 THEN {"a1"} ELSE ActionIDs :
        /\ a_request' = request
        /\ a_action_id' = action_id
        /\ outstanding_requests' =
              add_outstanding_request(outstanding_requests, action_id, request)
        /\ h_timed_out' = h_timed_out \ {action_id}
    /\ calls' = calls + 1
    /\ result' = NoResult
    /\ a_pc' = "send"
    /\ UNCHANGED <<wire_count, event_aggregates, event_queue, response_queue,
                   served_requests, registry_vars, dispatcher_vars, a_response,
                   a_success, a_events_timeout, a_timeout, dispatch_history,
                   response_history>>

\* Manager.send_action, lines 513-529: the request is written to the socket,
\* the aggregates are set up and the deadline is fixed
SendActionTransmit ==
    /\ UNCHANGED session_vars
    /\ a_pc = "send"
    /\ event_aggregates' = event_aggregates \o RequestAggregates(a_request, a_action_id)
    /\ a_timeout' = a_request.timeout
    /\ a_pc' = "poll"
    /\ UNCHANGED <<wire_count, outstanding_requests, event_queue, response_queue,
                   served_requests, registry_vars, dispatcher_vars, send_vars,
                   dispatch_history, response_history, h_timed_out>>

\* Manager.send_action, lines 530-548: one turn of the polling loop
SendActionPoll ==
    /\ UNCHANGED session_vars
    /\ a_pc = "poll"
    /\ IF a_timeout > 0
       THEN IF a_response = NoMsg
            THEN LET got == get_response(served_requests, a_action_id) IN
                 /\ served_requests' = got.served
                 /\ a_response' = got.response
                 /\ a_success' = (got.response # NoMsg /\ process_response(got.response))
                 /\ a_pc' = IF got.response # NoMsg
                               /\ (~a_request.synchronous \/ ~process_response(got.response))
                            THEN "serve" ELSE "poll"
                 /\ UNCHANGED a_events_timeout
            ELSE /\ a_pc' = IF check_outstanding_request_complete(outstanding_requests,
                                                                  a_action_id)
                            THEN "serve" ELSE "poll"
                 /\ UNCHANGED <<served_requests, a_response, a_success, a_events_timeout>>
       ELSE /\ a_events_timeout' = a_request.synchronous
            /\ a_pc' = "serve"
            /\ UNCHANGED <<served_requests, a_response, a_success>>
    /\ UNCHANGED <<wire_count, outstanding_requests, event_aggregates, event_queue,
                   response_queue, registry_vars, dispatcher_vars, a_request,
                   a_action_id, a_timeout, calls, result, dispatch_history,
                   response_history, h_timed_out>>

\* Manager.send_action, lines 550-566: the ActionID is taken out of circulation
\* and the _Response (or None) is returned
SendActionReturn ==
    /\ UNCHANGED session_vars
    /\ a_pc = "serve"
    /\ outstanding_requests' = serve_outstanding_request(outstanding_requests, a_action_id)
    /\ result' =
          IF a_response # NoMsg
          THEN [kind |-> "Response", response |-> a_response, request |-> a_request,
                action_id |-> a_action_id, success |-> a_success,
                events |-> outstanding_requests[a_action_id].events,
                has_events |-> a_request.synchronous,
                events_timeout |-> a_events_timeout]
          ELSE [NoResult EXCEPT !.kind = "None", !.request = a_request,
                                !.action_id = a_action_id]
    /\ h_returned' = IF a_response # NoMsg
                     THEN [h_returned EXCEPT ![a_response.id] = @ + 1]
                     ELSE h_returned
    /\ h_timed_out' = IF a_response = NoMsg
                      THEN h_timed_out \cup {a_action_id}
                      ELSE h_timed_out
    /\ a_pc' = "idle"
    /\ a_request' = CoreShowChannels(FALSE, FALSE)
    /\ a_action_id' = NoId
    /\ a_response' = NoMsg
    /\ a_success' = FALSE
    /\ a_events_timeout' = FALSE
    /\ a_timeout' = 0
    /\ UNCHANGED <<wire_count, event_aggregates, event_queue, response_queue,
                   served_requests, registry_vars, dispatcher_vars, calls,
                   dispatch_history, h_outstanding_at_parse, h_late_at_parse,
                   h_orphaned, h_expired, h_duplicate>>


\* -------------------------------------------------------------- aggregates
\* _Aggregate._evaluate_action_id
Aggregate_evaluate_action_id(aggregate, event) == aggregate.action_id = event.aid

\* The list or slot shared by the class key and the name key of a class
StoreListed(items, c, id) ==
    LET value == [kind |-> "list", val |-> Append(items[ClassKey(c)].val, id)]
    IN  [items EXCEPT ![ClassKey(c)] = value, ![EVENT_REGISTRY_REV(c)] = value]
\* An assignment to the class key alone
StoreSlot_class_only(items, c, id) == [items EXCEPT ![ClassKey(c)] = EventSlot(id)]
StoreSlot(items, c, id) ==
    [items EXCEPT ![ClassKey(c)] = EventSlot(id), ![EVENT_REGISTRY_REV(c)] = EventSlot(id)]

\* _Aggregate._aggregate
Aggregate_aggregate(aggregate, event) ==
    IF Aggregate_evaluate_action_id(aggregate, event)
    THEN [aggregate EXCEPT !.items = StoreListed(@, event.name, event.id)]
    ELSE aggregate

\* A finalisation that does not look at the ActionID
Aggregate_finalise_any(aggregate, event) ==
    LET after == [aggregate EXCEPT !.items = StoreSlot(@, event.name, event.id),
                                   !.pending = @ \ {event.name}]
    IN  [aggregate |-> after, result |-> (after.pending = {})]

\* _Aggregate._finalise: the aggregate afterwards and the value returned
Aggregate_finalise(aggregate, event) ==
    IF Aggregate_evaluate_action_id(aggregate, event)
    THEN LET after == [aggregate EXCEPT !.items = StoreSlot(@, event.name, event.id),
                                        !.pending = @ \ {event.name}]
         IN  [aggregate |-> after, result |-> (after.pending = {})]
    ELSE [aggregate |-> aggregate, result |-> FALSE]

\* generic_transforms.to_int for one key: int() of the header's value, or the
\* failure value when the key is missing or its value is no number
to_int(header, failure_value) ==
    IF header.stated /\ header.number THEN header.value ELSE failure_value

\* CoreShowChannelsComplete.process: the value of 'ListItems' afterwards
CoreShowChannelsComplete_process(event) == to_int(event.ListItems, -1)

\* The lengths of the lists held under the given keys, summed
RECURSIVE SumLists(_, _)
SumLists(items, keys) ==
    IF keys = {} THEN 0
    ELSE LET k == CHOOSE x \in keys : TRUE
         IN  (IF items[k].kind = "list" THEN Len(items[k].val) ELSE 0)
                 + SumLists(items, keys \ {k})

\* A count over every key, class keys included
items_count_all_keys(items) == SumLists(items, Keys)

\* _Aggregate._check_list_items_count, line 735: the lists under string keys
items_count(items) == SumLists(items, {EVENT_REGISTRY_REV(c) : c \in EventNames})

\* _Aggregate._check_list_items_count: the processed event always holds the
\* count header (to_int stores a value in every case), so _valid is assigned
check_list_items_count(aggregate, event) ==
    LET list_items_count == CoreShowChannelsComplete_process(event)
    IN  [aggregate EXCEPT !.valid = (list_items_count = items_count(aggregate.items))]

\* CoreShowChannels_Aggregate._finalise: the count is checked, then the
\* ActionID
CoreShowChannels_Aggregate_finalise(aggregate, event) ==
    Aggregate_finalise(check_list_items_count(aggregate, event), event)

\* _Aggregate.evaluate_event: result is "True", "False" or "None"
evaluate_event(aggregate, event) ==
    IF event.name \in aggregation_members(aggregate.name)
    THEN [aggregate |-> Aggregate_aggregate(aggregate, event), result |-> "False"]
    ELSE IF event.name \in aggregation_finalisers(aggregate.name)
    THEN LET f == CoreShowChannels_Aggregate_finalise(aggregate, event)
         IN  [aggregate |-> f.aggregate, result |-> IF f.result THEN "True" ELSE "False"]
    ELSE [aggregate |-> aggregate, result |-> "None"]

\* Manager._event_dispatcher_events, lines 224-233: the event is offered to the
\* pending aggregates in list order until one returns something other than None
EvaluateAggregates(aggregates, complete, event) ==
    LET relevant == {i \in 1..Len(aggregates) :
                        evaluate_event(aggregates[i].aggregate, event).result # "None"}
    IN  IF relevant = {}
        THEN [aggregates |-> aggregates, complete |-> complete,
              ended_by |-> NoId, consumed |-> FALSE]
        ELSE LET i == CHOOSE x \in relevant : \A y \in relevant : x <= y
                 r == evaluate_event(aggregates[i].aggregate, event)
             IN  [aggregates |->
                     IF r.result = "True"
                     THEN Remove(aggregates, i)
                     ELSE [aggregates EXCEPT ![i].aggregate = r.aggregate],
                  complete |->
                     IF r.result = "True" THEN Append(complete, r.aggregate) ELSE complete,
                  ended_by |-> aggregates[i].aggregate.action_id,
                  consumed |-> (r.aggregate.items # aggregates[i].aggregate.items)]

\* ------------------------------------------------------- dispatcher thread
\* Manager._process_outstanding_request_event: whether the event was bound to
\* a synchronous request, and the table afterwards
process_outstanding_request_event(table, event) ==
    IF event.aid \in ActionIDs /\ table[event.aid].state = "sync"
    THEN LET status == table[event.aid]
             value == status.events[ClassKey(event.name)]
         IN  [bound |-> TRUE,
              table |-> [table EXCEPT ![event.aid] =
                            [state |-> "sync",
                             events |-> IF value.kind = "list"
                                        THEN StoreListed(status.events, event.name, event.id)
                                        ELSE StoreSlot(status.events, event.name, event.id),
                             pending |-> status.pending \ {event.name}]]]
    ELSE [bound |-> FALSE, table |-> table]

\* A queue that gives its newest element first
QueueGet_newest(queue) ==
    [item |-> queue[Len(queue)], queue |-> SubSeq(queue, 1, Len(queue) - 1)]

\* Queue.get_nowait: the element taken and the queue afterwards
QueueGet(queue) == [item |-> Head(queue), queue |-> Tail(queue)]

\* A dispatcher that leaves out the callbacks registered for every event
GatherEventCallbacks_by_name(callbacks, event_name) ==
    LET chosen == SelectSeq(callbacks, LAMBDA d :
                      d[1] = CALLBACK_TYPE_REFERENCE /\ d[2] = event_name)
    IN  [i \in 1..Len(chosen) |-> chosen[i][3]]

\* Manager._event_dispatcher_events, line 241: the callbacks of an event
GatherEventCallbacks(callbacks, event_name) ==
    LET chosen == SelectSeq(callbacks, LAMBDA d :
                      (d[1] = CALLBACK_TYPE_REFERENCE /\ d[2] = event_name)
                      \/ d[1] = CALLBACK_TYPE_UNIVERSAL)
    IN  [i \in 1..Len(chosen) |-> chosen[i][3]]

\* Manager._event_dispatcher_orphaned_responses, line 278
GatherOrphanCallbacks(callbacks) ==
    LET chosen == SelectSeq(callbacks, LAMBDA d : d[1] = CALLBACK_TYPE_ORPHANED)
    IN  [i \in 1..Len(chosen) |-> chosen[i][3]]

\* The registry with the registration stamp of every entry
StampedRegistry ==
    [i \in 1..Len(event_callbacks) |->
        [definition |-> event_callbacks[i], stamp |-> h_stamp[event_callbacks[i]]]]

\* A finalised aggregate as the event the callbacks receive
AggregateEvent(aggregate) ==
    [id |-> 0, kind |-> "Aggregate", name |-> aggregate.name, aid |-> aggregate.action_id,
     ListItems |-> NoHeader]

\* Manager._event_dispatcher_events, lines 235-260, for an event in hand: the
\* callbacks are gathered
StartCallbacksFor(event) ==
    LET callbacks == GatherEventCallbacks(event_callbacks, event.name) IN
    /\ d_event' = event
    /\ d_callbacks' = callbacks
    /\ h_registry' = StampedRegistry
    /\ h_invoked' = <<>>
    /\ h_raised' = FALSE
    /\ d_worked' = TRUE
    /\ d_pc' = IF callbacks = <<>> THEN "orphans" ELSE "callbacks"

\* A test that prefers the events queue to the completed aggregates
completed_first_unless_queued(complete, queue) == complete # <<>> /\ queue = <<>>

\* Manager._event_dispatcher_events, line 211: "Check for completed aggregates
\* first"
completed_first(complete, queue) == complete # <<>>

\* Manager._event_dispatcher_events up to the first callback: a finalised
\* aggregate is emitted, or an event is taken from the queue, bound to its
\* synchronous request or offered to the aggregates, and its callbacks are
\* gathered
DispatcherEvents ==
    /\ UNCHANGED session_vars
    /\ d_pc = "events"
    /\ IF completed_first(event_aggregates_complete, event_queue)
       THEN /\ event_aggregates_complete' = Tail(event_aggregates_complete)
            /\ StartCallbacksFor(AggregateEvent(Head(event_aggregates_complete)))
            /\ h_consumed' = FALSE
            /\ h_ended_by' = NoId
            /\ UNCHANGED <<event_queue, outstanding_requests, event_aggregates>>
       ELSE IF event_queue = <<>>
       THEN /\ d_worked' = FALSE
            /\ d_pc' = "orphans"
            /\ UNCHANGED <<event_queue, outstanding_requests, event_aggregates,
                           event_aggregates_complete, d_event, d_callbacks,
                           h_registry, h_invoked, h_raised, h_consumed,
                           h_ended_by>>
       ELSE LET got == QueueGet(event_queue)
                bind == process_outstanding_request_event(outstanding_requests, got.item)
                eval == EvaluateAggregates(event_aggregates, event_aggregates_complete,
                                           got.item)
            IN  /\ event_queue' = got.queue
                /\ outstanding_requests' = bind.table
                /\ IF bind.bound
                   THEN /\ d_worked' = FALSE
                        /\ d_pc' = "orphans"
                        /\ d_event' = got.item
                        /\ d_callbacks' = <<>>
                        /\ h_registry' = <<>>
                        /\ h_invoked' = <<>>
                        /\ h_raised' = FALSE
                        /\ h_consumed' = FALSE
                        /\ h_ended_by' = NoId
                        /\ UNCHANGED <<event_aggregates, event_aggregates_complete>>
                   ELSE /\ event_aggregates' = eval.aggregates
                        /\ event_aggregates_complete' = eval.complete
                        /\ h_consumed' = eval.consumed
                        /\ h_ended_by' = eval.ended_by
                        /\ StartCallbacksFor(got.item)
    /\ UNCHANGED <<wire_count, response_queue, served_requests, registry_vars,
                   event_aggregate_cycle, a_pc, a_timeout, send_vars, h_delivered,
                   response_history, h_timed_out>>

\* Lines 249-258 and 286-295 with an abort: an exception of a callback leaves
\* the loop
AfterCallback_abort(callbacks, raised) == IF raised THEN <<>> ELSE Tail(callbacks)

\* Lines 249-258 and 286-295: the callbacks still to be invoked after one has
\* been invoked. An exception of the callback is caught and logged inside the
\* loop body, so the loop goes on with the next callback either way.
AfterCallback(callbacks, raised) == Tail(callbacks)

\* Lines 249-258 and 286-295: the next gathered callback is invoked, and it
\* returns or raises
DispatcherInvoke ==
    /\ UNCHANGED session_vars
    /\ d_pc \in {"callbacks", "orphan_callbacks"}
    /\ h_invoked' = Append(h_invoked, Head(d_callbacks))
    /\ \E raised \in BOOLEAN :
          /\ h_raised' = raised
          /\ d_callbacks' = AfterCallback(d_callbacks, raised)
    /\ h_delivered' = IF d_event.kind = KEY_EVENT
                      THEN h_delivered \cup {d_event.id} ELSE h_delivered
    /\ d_pc' = IF d_callbacks' # <<>> THEN d_pc
               ELSE IF d_pc = "callbacks" THEN "orphans" ELSE "sleep"
    /\ UNCHANGED <<wire_count, outstanding_requests, event_aggregates, event_queue,
                   response_queue, served_requests, registry_vars, d_event, d_worked,
                   event_aggregates_complete, event_aggregate_cycle, a_pc, a_timeout,
                   send_vars, h_registry, h_consumed, h_ended_by, response_history,
                   h_timed_out>>

\* Manager._event_dispatcher_orphaned_responses up to the first callback
DispatcherOrphanedResponses ==
    /\ UNCHANGED session_vars
    /\ d_pc = "orphans"
    /\ IF response_queue = <<>>
       THEN /\ d_pc' = "sleep"
            /\ UNCHANGED <<response_queue, d_event, d_callbacks, d_worked, h_registry,
                           h_invoked, h_raised>>
       ELSE LET got == QueueGet(response_queue)
                callbacks == GatherOrphanCallbacks(event_callbacks)
            IN  /\ response_queue' = got.queue
                /\ d_event' = got.item
                /\ d_callbacks' = callbacks
                /\ h_registry' = StampedRegistry
                /\ h_invoked' = <<>>
                /\ h_raised' = FALSE
                /\ d_worked' = TRUE
                /\ d_pc' = IF callbacks = <<>> THEN "sleep" ELSE "orphan_callbacks"
    /\ UNCHANGED <<wire_count, outstanding_requests, event_aggregates, event_queue,
                   served_requests, registry_vars, event_aggregates_complete,
                   event_aggregate_cycle, a_pc, a_timeout, send_vars, h_delivered,
                   h_consumed, h_ended_by, response_history, h_timed_out>>

\* A reap pass that removes nothing
Reap_nothing(aggregates) == aggregates

\* Manager._event_dispatcher, lines 193-195: the loop deletes from the list it
\* is enumerating, so the entry after a deleted one is stepped over
RECURSIVE ReapFrom(_, _)
ReapFrom(aggregates, i) ==
    IF i > Len(aggregates) THEN aggregates
    ELSE IF aggregates[i].deadline = 0
    THEN ReapFrom(Remove(aggregates, i), i + 1)
    ELSE ReapFrom(aggregates, i + 1)
Reap(aggregates) == ReapFrom(aggregates, 1)

\* Manager._event_dispatcher, lines 186-201: the end of a cycle. After an idle
\* cycle the thread sleeps, and reaps the expired aggregates when the countdown
\* is at 0. The countdown takes the values 0 and REAP_CYCLE only: a
\* decrement either leaves it as it is or brings it to 0.
DispatcherSleep ==
    /\ UNCHANGED session_vars
    /\ d_pc = "sleep"
    /\ d_pc' = "events"
    /\ d_worked' = FALSE
    /\ d_event' = NoMsg
    /\ h_registry' = <<>>
    /\ h_invoked' = <<>>
    /\ h_raised' = FALSE
    /\ h_consumed' = FALSE
    /\ h_ended_by' = NoId
    /\ IF d_worked
       THEN UNCHANGED <<event_aggregates, event_aggregate_cycle>>
       ELSE IF event_aggregate_cycle = 0
       THEN /\ event_aggregate_cycle' = REAP_CYCLE
            /\ event_aggregates' = Reap(event_aggregates)
       ELSE /\ event_aggregate_cycle' \in {REAP_CYCLE, 0}
            /\ UNCHANGED event_aggregates
    /\ UNCHANGED <<wire_count, outstanding_requests, event_queue, response_queue,
                   served_requests, registry_vars, d_callbacks,
                   event_aggregates_complete, a_pc, a_timeout, send_vars,
                   h_delivered, response_history, h_timed_out>>


\* ------------------------------------------- application: callback registry
\* What register_callback and unregister_callback accept as `event`: a string
\* (empty for every event), an event class, or None
EventIdentifiers ==
    {<<"string", "Newchannel">>, <<"string", "">>, <<"type", "Newchannel">>,
     <<"None", "">>}

\* Manager._compile_callback_definition
compile_callback_definition(event, function) ==
    IF event[1] = "string"
    THEN IF event[2] = ""
         THEN <<CALLBACK_TYPE_UNIVERSAL, NoId, function>>
         ELSE <<CALLBACK_TYPE_REFERENCE, event[2], function>>
    ELSE IF event[1] = "type"
    THEN <<CALLBACK_TYPE_REFERENCE, event[2], function>>
    ELSE <<CALLBACK_TYPE_ORPHANED, NoId, function>>

\* Manager._unregister_callback: the index of the entry it deletes, 0 if none
UnregisterIndex(callbacks, definition) ==
    LET found == {i \in 1..Len(callbacks) : callbacks[i] = definition}
    IN  IF found = {} THEN 0 ELSE CHOOSE i \in found : \A j \in found : i <= j

\* An _unregister_callback that removes the oldest entry, whatever it is
unregister_callback_head(callbacks, definition) ==
    IF callbacks = <<>> THEN callbacks ELSE Tail(callbacks)

\* An _unregister_callback that removes nothing
unregister_callback_none(callbacks, definition) == callbacks

\* Manager._unregister_callback: the list afterwards
unregister_callback(callbacks, definition) ==
    IF UnregisterIndex(callbacks, definition) = 0
    THEN callbacks
    ELSE Remove(callbacks, UnregisterIndex(callbacks, definition))

\* A registry that puts the newest callback first
AppendCallback_first(callbacks, definition) == <<definition>> \o callbacks

\* Manager._unregister_callback: the value returned
unregister_callback_returns(callbacks, definition) ==
    UnregisterIndex(callbacks, definition) # 0

\* Manager.register_callback, line 451
AppendCallback(callbacks, definition) == Append(callbacks, definition)

\* Manager.register_callback, lines 448-449: the definition is compiled and an
\* equal one is removed
RegisterCallbackUnregister ==
    /\ UNCHANGED session_vars
    /\ a_pc = "idle"
    /\ regs < MaxRegs
    /\ \E event \in EventIdentifiers, function \in Functions :
        LET definition == compile_callback_definition(event, function) IN
        /\ a_definition' = definition
        /\ event_callbacks' = unregister_callback(event_callbacks, definition)
    /\ regs' = regs + 1
    /\ a_pc' = "append"
    /\ h_before' = event_callbacks
    /\ UNCHANGED <<h_call, h_stamp, wire_count, outstanding_requests, event_aggregates, event_queue,
                   response_queue, served_requests, dispatcher_vars, send_vars,
                   a_timeout, dispatch_history, response_history, h_timed_out>>

\* Manager.register_callback, lines 450-451: the definition is appended
RegisterCallbackAppend ==
    /\ UNCHANGED session_vars
    /\ a_pc = "append"
    /\ event_callbacks' = AppendCallback(event_callbacks, a_definition)
    /\ h_stamp' = [h_stamp EXCEPT ![a_definition] = regs]
    /\ h_call' = [op |-> "register", definition |-> a_definition, returned |-> FALSE,
                  paired |-> FALSE]
    /\ a_pc' = "idle"
    /\ UNCHANGED <<h_before, wire_count, outstanding_requests, event_aggregates, event_queue,
                   response_queue, served_requests, dispatcher_vars, send_vars,
                   a_timeout, a_definition, regs, dispatch_history, response_history,
                   h_timed_out>>

\* Manager.unregister_callback
UnregisterCallback ==
    /\ UNCHANGED session_vars
    /\ a_pc = "idle"
    /\ regs < MaxRegs
    /\ \E event \in EventIdentifiers, function \in Functions :
        LET definition == compile_callback_definition(event, function) IN
        /\ event_callbacks' = unregister_callback(event_callbacks, definition)
        /\ h_call' = [op |-> "unregister", definition |-> definition,
                      returned |-> unregister_callback_returns(event_callbacks, definition),
                      paired |-> (h_call.op = "register" /\ h_call.definition = definition)]
    /\ regs' = regs + 1
    /\ h_before' = event_callbacks
    /\ UNCHANGED <<h_stamp, wire_count, outstanding_requests, event_aggregates, event_queue,
                   response_queue, served_requests, dispatcher_vars, send_vars,
                   a_pc, a_timeout, a_definition, dispatch_history, response_history,
                   h_timed_out>>

\* Manager.register_callback, lines 448-449, called by the second thread
SecondRegisterUnregister ==
    /\ UNCHANGED <<connection_vars, agi_vars, lock_vars, order_vars>>
    /\ b_pc = "idle"
    /\ regs < MaxRegs
    /\ \E event \in EventIdentifiers, function \in Functions :
        LET definition == compile_callback_definition(event, function) IN
        /\ b_definition' = definition
        /\ event_callbacks' = unregister_callback(event_callbacks, definition)
    /\ regs' = regs + 1
    /\ b_pc' = "append"
    /\ h_before' = event_callbacks
    /\ UNCHANGED <<h_call, h_stamp, wire_count, outstanding_requests, event_aggregates,
                   event_queue, response_queue, served_requests, dispatcher_vars,
                   send_vars, a_pc, a_timeout, a_definition, dispatch_history,
                   response_history, h_timed_out>>

\* Manager.register_callback, lines 450-451, called by the second thread
SecondRegisterAppend ==
    /\ UNCHANGED <<connection_vars, agi_vars, lock_vars, order_vars>>
    /\ b_pc = "append"
    /\ event_callbacks' = AppendCallback(event_callbacks, b_definition)
    /\ h_stamp' = [h_stamp EXCEPT ![b_definition] = regs]
    /\ h_call' = [op |-> "register", definition |-> b_definition, returned |-> FALSE,
                  paired |-> FALSE]
    /\ b_pc' = "idle"
    /\ UNCHANGED <<h_before, wire_count, outstanding_requests, event_aggregates,
                   event_queue, response_queue, served_requests, dispatcher_vars,
                   send_vars, a_pc, a_timeout, a_definition, b_definition, regs,
                   dispatch_history, response_history, h_timed_out>>

\* ------------------------------------------------- connection: the sockets
\* A failure that leaves the socket as it is
socket_close_not(flags, i) == flags

\* A socket that every end of an operation closes
AfterOperation_closing(flags, i, outcome) == [flags EXCEPT ![i] = FALSE]

\* A read that waits forever on a closed socket
read_message_waiting(flags, closed_by_peer, i) ==
    IF ~flags[i] \/ closed_by_peer[i] THEN {}
    ELSE {"message", "timeout", "ManagerSocketError"}

\* _SynchronisedSocket._close: the flag is cleared, the file and the socket
\* are closed, whatever their state
socket_close(flags, i) == [flags EXCEPT ![i] = FALSE]

\* _SynchronisedSocket.send_message: how a call on socket i can end. A closed
\* socket raises at the is_connected test, an open one transmits or fails.
send_message(flags, i) ==
    IF flags[i] THEN {"sent", "ManagerSocketError"} ELSE {"ManagerSocketError"}

\* The flags after send_message or the readline of read_message ended with
\* `outcome`: a socket.error closes the socket before ManagerSocketError is
\* raised
AfterOperation(flags, i, outcome) ==
    IF outcome = "ManagerSocketError" THEN socket_close(flags, i) ELSE flags

\* _SynchronisedSocket.close, called on the socket the application obtained
\* through get_connection()
SocketClose ==
    /\ \E i \in 1..sockets :
          /\ connected' = socket_close(connected, i)
    /\ h_closed' = "socket"
    /\ h_op' = NoOp
    /\ UNCHANGED <<messaging_vars, outstanding_requests, connection, message_reader,
                   alive, action_id_counter, dispatcher_running, sockets, eof, r_alive,
                   r_pc, r_socket, s_pc, s_supplied, s_own, s_key, sends, c_pc,
                   h_command, h_ids, h_timeouts>>

\* _SynchronisedSocket.send_message, called on the socket the application
\* obtained through get_connection()
SocketSendMessage ==
    /\ \E i \in 1..sockets : \E outcome \in send_message(connected, i) :
          /\ connected' = AfterOperation(connected, i, outcome)
          /\ h_op' = [socket |-> i, op |-> "send", outcome |-> outcome]
    /\ h_closed' = "none"
    /\ UNCHANGED <<messaging_vars, outstanding_requests, connection, message_reader,
                   alive, action_id_counter, dispatcher_running, sockets, eof, r_alive,
                   r_pc, r_socket, s_pc, s_supplied, s_own, s_key, sends, c_pc,
                   h_command, h_ids, h_timeouts>>

\* The Asterisk server closes the connection: from now on a read of the
\* stream yields the empty string
PeerCloses ==
    /\ \E i \in 1..sockets :
          /\ connected[i]
          /\ ~eof[i]
          /\ eof' = [eof EXCEPT ![i] = TRUE]
    /\ h_closed' = "none"
    /\ h_op' = NoOp
    /\ UNCHANGED <<messaging_vars, outstanding_requests, connection, message_reader,
                   alive, action_id_counter, dispatcher_running, sockets, connected,
                   r_alive, r_pc, r_socket, s_pc, s_supplied, s_own, s_key, sends, c_pc,
                   h_command, h_ids, h_timeouts>>

\* ------------------------------------------------- connection: the manager
\* A disconnect that leaves the requests registered
ClearRequests_keeping(table) == table

\* Manager.disconnect, line 359: _outstanding_requests.clear()
ClearRequests(table) == [k \in DOMAIN table |-> NoRequest]

\* Manager.disconnect, lines 356-358: the connection in use, if any, is closed
DisconnectedSockets(flags, socket) ==
    IF socket # 0 THEN socket_close(flags, socket) ELSE flags

\* Manager.disconnect, lines 361-362, and _MessageReader.kill: the reader, if
\* any, is told to stop
KilledReaders(flags, reader) ==
    IF reader # 0 THEN [flags EXCEPT ![reader] = FALSE] ELSE flags

\* Manager.disconnect
ManagerDisconnect ==
    /\ c_pc = "idle"
    /\ connected' = DisconnectedSockets(connected, connection)
    /\ connection' = 0
    /\ outstanding_requests' = ClearRequests(outstanding_requests)
    /\ r_alive' = KilledReaders(r_alive, message_reader)
    /\ h_closed' = "disconnect"
    /\ h_op' = NoOp
    /\ UNCHANGED <<messaging_vars, message_reader, alive, action_id_counter,
                   dispatcher_running, sockets, eof, r_pc, r_socket, s_pc, s_supplied,
                   s_own, s_key, sends, c_pc, h_command, h_ids, h_timeouts>>

\* Manager.connect: the old connection is dropped; the new socket connects and
\* a reader is started for it, or the constructor of the socket raises
ManagerConnect ==
    /\ c_pc = "idle"
    /\ sockets < MaxConnects
    /\ outstanding_requests' = ClearRequests(outstanding_requests)
    /\ r_alive' = KilledReaders(r_alive, message_reader)
    /\ \/ /\ sockets' = sockets + 1
          /\ connected' = [DisconnectedSockets(connected, connection)
                              EXCEPT ![sockets + 1] = TRUE]
          /\ connection' = sockets + 1
          /\ message_reader' = sockets + 1
          /\ r_pc' = [r_pc EXCEPT ![sockets + 1] = "start"]
       \/ /\ connected' = DisconnectedSockets(connected, connection)
          /\ connection' = 0
          /\ UNCHANGED <<sockets, message_reader, r_pc>>
    /\ h_closed' = "none"
    /\ h_op' = NoOp
    /\ UNCHANGED <<messaging_vars, alive, action_id_counter, dispatcher_running, eof,
                   r_socket, s_pc, s_supplied, s_own, s_key, sends, c_pc, h_command,
                   h_ids, h_timeouts>>

\* Manager.close up to the join: the connection is dropped and the dispatcher
\* is told to stop
ManagerClose ==
    /\ c_pc = "idle"
    /\ connected' = DisconnectedSockets(connected, connection)
    /\ connection' = 0
    /\ outstanding_requests' = ClearRequests(outstanding_requests)
    /\ r_alive' = KilledReaders(r_alive, message_reader)
    /\ alive' = FALSE
    /\ c_pc' = "join"
    /\ h_closed' = "none"
    /\ h_op' = NoOp
    /\ UNCHANGED <<messaging_vars, message_reader, action_id_counter,
                   dispatcher_running, sockets, eof, r_pc, r_socket, s_pc, s_supplied,
                   s_own, s_key, sends, h_command, h_ids, h_timeouts>>

\* Manager.close, line 330: the join returns once the dispatcher has ended
ManagerCloseJoin ==
    /\ c_pc = "join"
    /\ ~dispatcher_running
    /\ c_pc' = "idle"
    /\ h_closed' = "close"
    /\ h_op' = NoOp
    /\ UNCHANGED <<messaging_vars, outstanding_requests, connection, message_reader,
                   alive, action_id_counter, dispatcher_running, sockets, connected, eof,
                   r_alive, r_pc, r_socket, s_pc, s_supplied, s_own, s_key, sends,
                   h_command, h_ids, h_timeouts>>

\* Manager._event_dispatcher, line 173: the loop ends when _alive is false
DispatcherExit ==
    /\ dispatcher_running
    /\ ~alive
    /\ dispatcher_running' = FALSE
    /\ h_closed' = "none"
    /\ h_op' = NoOp
    /\ UNCHANGED <<messaging_vars, outstanding_requests, connection, message_reader,
                   alive, action_id_counter, sockets, connected, eof, r_alive, r_pc,
                   r_socket, s_pc, s_supplied, s_own, s_key, sends, c_pc,
                   h_command, h_ids, h_timeouts>>

\* -------------------------------------------------- connection: the reader
\* _MessageReader.run, line 1006: the thread starts and takes the connection
\* the manager has at that moment
ReaderStart(i) ==
    /\ r_pc[i] = "start"
    /\ r_socket' = [r_socket EXCEPT ![i] = connection]
    /\ r_pc' = [r_pc EXCEPT ![i] = "loop"]
    /\ h_closed' = "none"
    /\ h_op' = NoOp
    /\ UNCHANGED <<messaging_vars, outstanding_requests, connection, message_reader,
                   alive, action_id_counter, dispatcher_running, sockets, connected, eof,
                   r_alive, s_pc, s_supplied, s_own, s_key, sends, c_pc,
                   h_command, h_ids, h_timeouts>>

\* _MessageReader.run, lines 1008-1010, and read_message, lines 1111-1112: the
\* loop test and the entry of read_message. A killed reader leaves the loop; a
\* reader that found no connection dies of the AttributeError; read_message
\* raises when the socket is not connected, which ends the loop.
ReaderLoop(i) ==
    /\ r_pc[i] = "loop"
    /\ IF ~r_alive[i]
       THEN r_pc' = [r_pc EXCEPT ![i] = "exited"] /\ h_op' = NoOp
       ELSE IF r_socket[i] = 0
       THEN r_pc' = [r_pc EXCEPT ![i] = "crashed"] /\ h_op' = NoOp
       ELSE IF connected[r_socket[i]]
       THEN r_pc' = [r_pc EXCEPT ![i] = "readline"] /\ h_op' = NoOp
       ELSE /\ r_pc' = [r_pc EXCEPT ![i] = "exited"]
            /\ h_op' = [socket |-> r_socket[i], op |-> "read",
                        outcome |-> "ManagerSocketError"]
    /\ h_closed' = "none"
    /\ UNCHANGED <<messaging_vars, outstanding_requests, connection, message_reader,
                   alive, action_id_counter, dispatcher_running, sockets, connected, eof,
                   r_alive, r_socket, s_pc, s_supplied, s_own, s_key, sends, c_pc,
                   h_command, h_ids, h_timeouts>>

\* read_message, lines 1121-1149: how the reading of the lines of a message
\* can end. On an open socket: a message, a timeout (None), or a socket.error;
\* after the peer has closed, readline yields '' again and again and the loop
\* does not end. On a socket closed meanwhile: a message that was buffered, or
\* the AttributeError of the closed file, raised as ManagerSocketError.
read_message(flags, closed_by_peer, i) ==
    IF ~flags[i] THEN {"message", "ManagerSocketError"}
    ELSE IF closed_by_peer[i] THEN {}
    ELSE {"message", "timeout", "ManagerSocketError"}

\* _MessageReader.run, lines 1010-1014, with read_message past its entry
ReaderReadline(i) ==
    /\ r_pc[i] = "readline"
    /\ \E outcome \in read_message(connected, eof, r_socket[i]) :
          /\ connected' = AfterOperation(connected, r_socket[i], outcome)
          /\ h_op' = [socket |-> r_socket[i], op |-> "read", outcome |-> outcome]
          /\ r_pc' = [r_pc EXCEPT ![i] = IF outcome = "ManagerSocketError"
                                         THEN "exited" ELSE "loop"]
          /\ h_timeouts' = [h_timeouts EXCEPT ![i] =
                               IF outcome = "timeout" /\ @ < MaxTimeouts
                               THEN @ + 1 ELSE @]
    /\ h_closed' = "none"
    /\ UNCHANGED <<messaging_vars, outstanding_requests, connection, message_reader,
                   alive, action_id_counter, dispatcher_running, sockets, eof, r_alive,
                   r_socket, s_pc, s_supplied, s_own, s_key, sends, c_pc,
                   h_command, h_ids>>

\* One step of the thread of reader i
ReaderThread(i) == ReaderStart(i) \/ ReaderLoop(i) \/ ReaderReadline(i)

\* --------------------------------------------- connection: the ActionIDs
\* _Request.build_request, lines 909-914: the ActionID header of the command
\* and the ActionID returned, for the action_id argument (None or a string),
\* the request's own 'ActionID' entry (None when it has none) and the token
\* the generator would give. The loop of lines 900-907 passes over the
\* request's own entry.
build_request(action_id, own, generated) ==
    IF action_id # NoId \/ own = NoId
    THEN LET used == IF action_id = NoId THEN generated
                     ELSE IF own # NoId THEN own
                     ELSE action_id
         IN  [headers |-> <<used>>, action_id |-> used, generator |-> action_id = NoId]
    ELSE [headers |-> <<>>, action_id |-> NoId, generator |-> FALSE]

\* Manager._get_host_action_id, called by a second thread in send_action (the
\* calls of the first thread are counted in)
GetHostActionId ==
    /\ Len(h_ids) + (MaxSends - sends) + (IF s_pc = "build" THEN 1 ELSE 0) < MaxIds
    /\ action_id_counter' = get_action_id(action_id_counter)
    /\ h_ids' = Append(h_ids, action_id_counter')
    /\ h_closed' = "none"
    /\ h_op' = NoOp
    /\ UNCHANGED <<messaging_vars, outstanding_requests, connection, message_reader,
                   alive, dispatcher_running, sockets, connected, eof, r_alive, r_pc,
                   r_socket, s_pc, s_supplied, s_own, s_key, sends, c_pc,
                   h_command, h_timeouts>>

\* Manager.send_action, lines 508-509: is_connected; the application passes
\* an action_id or none, with a request that has an 'ActionID' entry or none
SendActionConnected(supplied, owns) ==
    /\ s_pc = "idle"
    /\ sends < MaxSends
    /\ sends' = sends + 1
    /\ IF connection # 0 /\ connected[connection]
       THEN /\ \E action_id \in supplied, own \in owns :
                  s_supplied' = action_id /\ s_own' = own
            /\ s_pc' = "build"
       ELSE UNCHANGED <<s_pc, s_supplied, s_own>>
    /\ h_closed' = "none"
    /\ h_op' = NoOp
    /\ UNCHANGED <<messaging_vars, outstanding_requests, connection, message_reader,
                   alive, action_id_counter, dispatcher_running, sockets, connected, eof,
                   r_alive, r_pc, r_socket, s_key, c_pc, h_command, h_ids,
                   h_timeouts>>

\* Manager.send_action, lines 511-512: the command is built and the ActionID
\* is registered
SendActionBuild ==
    /\ s_pc = "build"
    /\ LET id == get_action_id(action_id_counter)
           built == build_request(s_supplied, s_own, get_host_action_id(id))
       IN  /\ action_id_counter' = IF built.generator THEN id ELSE action_id_counter
           /\ h_ids' = IF built.generator THEN Append(h_ids, id) ELSE h_ids
           /\ h_command' = built.headers
           /\ s_key' = built.action_id
           /\ outstanding_requests' =
                 add_outstanding_request(outstanding_requests, built.action_id,
                                         CoreShowChannels(FALSE, FALSE))
    /\ s_pc' = "send"
    /\ h_closed' = "none"
    /\ h_op' = NoOp
    /\ UNCHANGED <<messaging_vars, connection, message_reader, alive,
                   dispatcher_running, sockets, connected, eof, r_alive, r_pc, r_socket,
                   s_supplied, s_own, sends, c_pc, h_timeouts>>

\* Manager.send_action, lines 513-514: the command is handed to the connection
\* of the moment, under the connection lock. Without a connection the call
\* ends with an AttributeError; a ManagerSocketError of send_message ends it
\* too, and either way the ActionID stays registered.
SendActionSend ==
    /\ s_pc = "send"
    /\ IF connection = 0
       THEN /\ s_pc' = "idle"
            /\ connected' = connected /\ h_op' = NoOp
       ELSE \E outcome \in send_message(connected, connection) :
               /\ connected' = AfterOperation(connected, connection, outcome)
               /\ h_op' = [socket |-> connection, op |-> "send", outcome |-> outcome]
               /\ s_pc' = IF outcome = "sent" THEN "wait" ELSE "idle"
    /\ h_closed' = "none"
    /\ UNCHANGED <<messaging_vars, outstanding_requests, connection, message_reader,
                   alive, action_id_counter, dispatcher_running, sockets, eof, r_alive,
                   r_pc, r_socket, s_supplied, s_own, s_key, sends, c_pc, h_command,
                   h_ids, h_timeouts>>

\* Manager.send_action, lines 526-566: the wait is over (with a response or
\* after the timeout) and the ActionID is taken out of circulation
SendActionServe ==
    /\ s_pc = "wait"
    /\ outstanding_requests' = serve_outstanding_request(outstanding_requests, s_key)
    /\ s_pc' = "idle"
    /\ h_closed' = "none"
    /\ h_op' = NoOp
    /\ UNCHANGED <<messaging_vars, connection, message_reader, alive, action_id_counter,
                   dispatcher_running, sockets, connected, eof, r_alive, r_pc, r_socket,
                   s_supplied, s_own, s_key, sends, c_pc, h_command, h_ids, h_timeouts>>

\* Manager.send_action, lines 533-534: the response has come and the request's
\* process_response raises (Login.process_response raises ManagerAuthError on
\* an 'Error' response): the exception leaves send_action from inside the
\* loop, before line 550
SendActionRaise ==
    /\ s_pc = "wait"
    /\ s_pc' = "idle"
    /\ h_closed' = "none"
    /\ h_op' = NoOp
    /\ UNCHANGED <<messaging_vars, outstanding_requests, connection, message_reader,
                   alive, action_id_counter, dispatcher_running, sockets, connected, eof,
                   r_alive, r_pc, r_socket, s_supplied, s_own, s_key, sends, c_pc,
                   h_command, h_ids, h_timeouts>>

\* -------------------------------------------------------------- AGI engine
\* A line of the pipe from Asterisk. text: "eof" (readline returns ''),
\* "ioerror" (readline raises IOError), "HANGUP" (the line 'HANGUP\n') or
\* "line"; digits: the number written in the decimal digits the line starts
\* with, if any; tail: something follows the digits; pairs: the key=value
\* (data) pairs of what follows.
Eof == [text |-> "eof", digits |-> <<>>, tail |-> FALSE, pairs |-> <<>>]
IoError == [text |-> "ioerror", digits |-> <<>>, tail |-> FALSE, pairs |-> <<>>]
HangupLine == [text |-> "HANGUP", digits |-> <<>>, tail |-> FALSE, pairs |-> <<>>]
NoCodeLine == [text |-> "line", digits |-> <<>>, tail |-> FALSE, pairs |-> <<>>]
BareLine(code) == [text |-> "line", digits |-> <<code>>, tail |-> FALSE, pairs |-> <<>>]
CodeLine(code, pairs) == [text |-> "line", digits |-> <<code>>, tail |-> TRUE, pairs |-> pairs]
Pair(key, value, data) == [key |-> key, value |-> value, data |-> data]
RESULT_KEY == "result"
ResultLines ==
    {CodeLine(200, <<Pair(RESULT_KEY, v, d)>>) : v \in {"0", "1", "-1"}, d \in {"", "hangup"}}
ResponseLines ==
    {Eof, IoError, HangupLine, NoCodeLine, BareLine(200),
     CodeLine(200, <<Pair("foo", "1", "")>>)}
    \cup ResultLines
    \cup {CodeLine(c, <<>>) : c \in {0, 510, 511, 520, 404}}
NoLine == [text |-> "none", digits |-> <<>>, tail |-> FALSE, pairs |-> <<>>]

\* _Action subclasses: core.Answer (the processor of _Action) and
\* core.DatabaseGet
Answer == [name |-> "Answer", command |-> "ANSWER", check_hangup |-> TRUE]
DatabaseGet == [name |-> "DatabaseGet", command |-> "DATABASE GET", check_hangup |-> FALSE]
Actions == {Answer, DatabaseGet}

\* What a call gives: a value returned or an exception raised, with its items
NoValue == [type |-> "none", data |-> ""]
NoOutcome == [kind |-> "none", error |-> "", items |-> {}, value |-> NoValue]
Raised(error, items) == [kind |-> "raised", error |-> error, items |-> items, value |-> NoValue]
Returned(type, items, data) ==
    [kind |-> "returned", error |-> "", items |-> items, value |-> [type |-> type, data |-> data]]
\* The exception classes derived from AGIHangup
Hangups == {"AGISIGHUPHangup", "AGISIGPIPEHangup", "AGIResultHangup"}

\* _AGI._test_hangup: the exception raised, if any
test_hangup_base(flag) == ""

\* AGI._test_hangup: the exception raised, if any
test_hangup(flag) == IF flag THEN "AGISIGHUPHangup" ELSE test_hangup_base(flag)

\* _RE_CODE.search(line) for a stripped line: (^\d+)\s*(.+) needs a character
\* after the code, so in a line of digits alone the last digit is that
\* character
RE_CODE(line) ==
    IF line.digits = <<>> THEN [matched |-> FALSE, code |-> 0, pairs |-> <<>>]
    ELSE IF line.tail THEN [matched |-> TRUE, code |-> line.digits[1], pairs |-> line.pairs]
    ELSE IF line.digits[1] >= 10
    THEN [matched |-> TRUE, code |-> line.digits[1] \div 10, pairs |-> <<>>]
    ELSE [matched |-> FALSE, code |-> 0, pairs |-> <<>>]

\* The response dict built from _RE_KV.findall
ResponseItems(pairs) == {pairs[i] : i \in 1..Len(pairs)}

\* _get_result without the test of check_hangup
get_result_unchecked(line, check_hangup) ==
    LET m == RE_CODE(line)
    IN  IF m.matched /\ m.code = 200
        THEN Raised("AGIResultHangup", ResponseItems(m.pairs))
        ELSE Returned("None", {}, "")

\* _get_result with no branch for code 0
get_result_strict(line, check_hangup) == Raised("AGIUnknownError", {})

\* _AGI._get_result for the line read: the exception raised, or the value
\* returned (a Response, or None after the branch of code 0); code 520 stands
\* for itself, as the usage lines are still to be read
get_result(line, check_hangup) ==
    LET m == RE_CODE(line)
        code == IF m.matched THEN m.code ELSE 0
        response == ResponseItems(m.pairs)
    IN  IF code = 200
        THEN IF ~\E p \in response : p.key = RESULT_KEY
             THEN Raised("AGINoResultError", response)
             ELSE LET item == CHOOSE p \in response : p.key = RESULT_KEY
                  IN  IF check_hangup /\ item.data = "hangup"
                      THEN Raised("AGIResultHangup", response)
                      ELSE Returned("Response", response, "")
        ELSE IF code = 0 THEN Returned("None", {}, "")
        ELSE IF code = 510 THEN Raised("AGIInvalidCommandError", {})
        ELSE IF code = 511 THEN Raised("AGIDeadChannelError", {})
        ELSE IF code = 520 THEN Raised("AGIUsageError", {})
        ELSE Raised("AGIUnknownError", {})

\* _Action.process_response and DatabaseGet.process_response for what
\* _get_result returned
Action_process_response(action, got) ==
    IF action.name = "Answer" THEN got
    ELSE IF got.value.type = "None" THEN Raised("AttributeError", {})
    ELSE LET item == CHOOSE p \in got.items : p.key = RESULT_KEY
         IN  IF item.value = "0" THEN Raised("AGIDBError", got.items)
             ELSE IF item.value = "1" THEN Returned("data", {}, item.data)
             ELSE Raised("AGIDBError", got.items)

\* AGI.__init__: the handler is bound and the environment is read
Construct ==
    /\ UNCHANGED ami_vars
    /\ g_pc = "new"
    /\ environment' \in {"no", "yes"}
    /\ g_pc' = "idle"
    /\ UNCHANGED <<got_sighup, wfile, g_action, g_usage, g_outcome, executes,
                   h_sighup_at_call, h_line, h_got, h_reads, h_writes>>

\* AGI._handle_sighup: the signal arrives
HandleSighup ==
    /\ UNCHANGED ami_vars
    /\ g_pc # "new"
    /\ ~got_sighup
    /\ got_sighup' = TRUE
    /\ UNCHANGED <<environment, wfile, g_pc, g_action, g_usage, g_outcome, executes,
                   h_sighup_at_call, h_line, h_got, h_reads, h_writes>>

\* _AGI.execute, line 108: the call, and the test for a hangup
ExecuteTest ==
    /\ UNCHANGED ami_vars
    /\ g_pc = "idle"
    /\ executes < MaxExecutes
    /\ executes' = executes + 1
    /\ g_action' \in Actions
    /\ h_sighup_at_call' = got_sighup
    /\ h_line' = NoLine
    /\ h_got' = NoOutcome
    /\ h_reads' = 0
    /\ h_writes' = 0
    /\ g_usage' = 0
    /\ IF test_hangup(got_sighup) # ""
       THEN /\ g_outcome' = Raised(test_hangup(got_sighup), {})
            /\ g_pc' = "idle"
       ELSE /\ g_outcome' = NoOutcome
            /\ g_pc' = "send"
    /\ UNCHANGED <<got_sighup, environment, wfile>>

\* _AGI._send_command: the command line is written, or the write fails
ExecuteSend ==
    /\ UNCHANGED ami_vars
    /\ g_pc = "send"
    /\ \E written \in BOOLEAN :
          IF written
          THEN /\ wfile' = Append(wfile, g_action.command)
               /\ h_writes' = h_writes + 1
               /\ g_pc' = "read"
               /\ UNCHANGED g_outcome
          ELSE /\ g_outcome' = Raised("AGISIGPIPEHangup", {})
               /\ g_pc' = "idle"
               /\ UNCHANGED <<wfile, h_writes>>
    /\ UNCHANGED <<got_sighup, environment, g_action, g_usage, executes,
                   h_sighup_at_call, h_line, h_got, h_reads>>

\* _AGI._read_line, lines 234-244: a 'HANGUP' line is stepped over unless the
\* environment asked for SIGHUP
Skipped(line) == line.text = "HANGUP" /\ environment = "no"
\* The lines a read may meet: one that keeps the call reading only while the
\* call may read another
Readable ==
    IF h_reads + 1 < MaxReads THEN ResponseLines
    ELSE IF g_pc = "usage"
    THEN {line \in ResponseLines :
            line.text \in {"eof", "ioerror"} \/ line.digits = <<520>>}
    ELSE {line \in ResponseLines : ~Skipped(line) /\ line.digits # <<520>>}

\* _AGI.execute, lines 110-111: _get_result reads and parses a line, and the
\* action processes what it returned
ExecuteGetResult ==
    /\ UNCHANGED ami_vars
    /\ g_pc = "read"
    /\ \E line \in Readable :
          /\ h_reads' = h_reads + 1
          /\ IF Skipped(line)
             THEN UNCHANGED <<g_pc, g_outcome, h_line, h_got>>
             ELSE IF line.text \in {"eof", "ioerror"}
             THEN /\ g_outcome' = Raised("AGISIGPIPEHangup", {})
                  /\ g_pc' = "idle"
                  /\ UNCHANGED <<h_line, h_got>>
             ELSE LET got == get_result(line, g_action.check_hangup) IN
                  /\ h_line' = line
                  /\ h_got' = got
                  /\ IF got.error = "AGIUsageError"
                     THEN /\ g_pc' = "usage"
                          /\ UNCHANGED g_outcome
                     ELSE /\ g_pc' = "idle"
                          /\ g_outcome' = IF got.kind = "raised" THEN got
                                          ELSE Action_process_response(g_action, got)
    /\ UNCHANGED <<got_sighup, environment, wfile, g_action, g_usage, executes,
                   h_sighup_at_call, h_writes>>

\* _AGI._get_result, lines 187-193: the usage lines are read up to one that
\* starts with 520
ExecuteUsage ==
    /\ UNCHANGED ami_vars
    /\ g_pc = "usage"
    /\ \E line \in Readable :
          /\ h_reads' = h_reads + 1
          /\ IF Skipped(line)
             THEN UNCHANGED <<g_pc, g_outcome, g_usage>>
             ELSE IF line.text \in {"eof", "ioerror"}
             THEN /\ g_outcome' = Raised("AGISIGPIPEHangup", {})
                  /\ g_pc' = "idle"
                  /\ UNCHANGED g_usage
             ELSE /\ g_usage' = g_usage + 1
                  /\ IF line.digits = <<520>>
                     THEN /\ g_outcome' = h_got
                          /\ g_pc' = "idle"
                     ELSE UNCHANGED <<g_pc, g_outcome>>
    /\ UNCHANGED <<got_sighup, environment, wfile, g_action, executes,
                   h_sighup_at_call, h_line, h_got, h_writes>>

\* ---------------------------------------------------------- specifications
\* The server answers requests and the application's calls time out: the
\* reader routes responses
ReaderRunResponses == ReaderRead(ResponseShapes)
SendActionRegister == SendActionBegin(Requests)

NextResponses ==
    \/ Tick
    \/ ReaderRunResponses
    \/ SendActionRegister
    \/ SendActionTransmit
    \/ SendActionPoll
    \/ SendActionReturn
    \/ DispatcherEvents
    \/ DispatcherInvoke
    \/ DispatcherOrphanedResponses
    \/ DispatcherSleep

SpecResponses == Init /\ [][NextResponses]_vars

\* The list of channels: the server sends CoreShowChannel events and
\* CoreShowChannelsComplete events with or without a ListItems header, and the
\* application sends CoreShowChannels requests that ask for an aggregate
CountHeaders == {NoHeader, TextHeader} \cup {NumberHeader(n) : n \in 0..MaxMsgs}
ListShapes ==
    [kind : {KEY_EVENT}, name : {"CoreShowChannel"}, aid : ActionIDs,
     ListItems : {NoHeader}]
    \cup [kind : {KEY_EVENT}, name : {"CoreShowChannelsComplete"}, aid : ActionIDs,
          ListItems : CountHeaders]
ReaderRunLists == ReaderRead(ListShapes)
SendActionAggregated ==
    SendActionBegin({CoreShowChannels(TRUE, FALSE), CoreShowChannels(TRUE, TRUE)})

NextAggregates ==
    \/ Tick
    \/ ReaderRunLists
    \/ SendActionAggregated
    \/ SendActionTransmit
    \/ SendActionPoll
    \/ SendActionReturn
    \/ DispatcherEvents
    \/ DispatcherInvoke
    \/ DispatcherOrphanedResponses
    \/ DispatcherSleep

SpecAggregates == Init /\ [][NextAggregates]_vars

\* Two asynchronous CoreShowChannels requests with aggregates have been sent
\* under different ActionIDs, answered and returned; their aggregates are
\* pending, in either order, with their deadlines ahead
InitPair ==
    /\ InitDispatch
    /\ \E first \in ActionIDs : \E second \in ActionIDs \ {first} :
          event_aggregates =
              RequestAggregates(CoreShowChannels(TRUE, FALSE), first)
              \o RequestAggregates(CoreShowChannels(TRUE, FALSE), second)
    /\ outstanding_requests = [a \in ActionIDs |-> NoRequest]
    /\ InitConnected
    /\ action_id_counter = Zero
    /\ event_callbacks = StartCallbacks
    /\ h_stamp = [d \in CallbackDefinitions |->
                    IF \E i \in 1..Len(StartCallbacks) : StartCallbacks[i] = d
                    THEN CHOOSE i \in 1..Len(StartCallbacks) : StartCallbacks[i] = d
                    ELSE 0]

\* The server sends the list events of both requests, in any order, while the
\* dispatcher runs and time passes
NextPair ==
    \/ Tick
    \/ ReaderRunLists
    \/ DispatcherEvents
    \/ DispatcherInvoke
    \/ DispatcherOrphanedResponses
    \/ DispatcherSleep

SpecPair == InitPair /\ [][NextPair]_vars

\* Manager.send_action, lines 513-514, as a step of its own: the command is
\* written to the socket; the aggregates are not set up yet
SendActionSendMessage ==
    /\ UNCHANGED session_vars
    /\ a_pc = "send"
    /\ a_pc' = "aggregates"
    /\ UNCHANGED <<wire_count, outstanding_requests, event_aggregates, event_queue,
                   response_queue, served_requests, registry_vars, dispatcher_vars,
                   send_vars, a_timeout, dispatch_history, response_history,
                   h_timed_out>>

\* Manager.send_action, lines 516-529, as a step of its own: the aggregates
\* are appended under the aggregates lock and the deadline is fixed
SendActionSetUp ==
    /\ UNCHANGED session_vars
    /\ a_pc = "aggregates"
    /\ event_aggregates' = event_aggregates \o RequestAggregates(a_request, a_action_id)
    /\ a_timeout' = a_request.timeout
    /\ a_pc' = "poll"
    /\ UNCHANGED <<wire_count, outstanding_requests, event_queue, response_queue,
                   served_requests, registry_vars, dispatcher_vars, send_vars,
                   dispatch_history, response_history, h_timed_out>>

\* The application sends one asynchronous request that asks for an aggregate
SendActionOnce == calls = 0 /\ SendActionBegin({CoreShowChannels(TRUE, FALSE)})

\* What the server sends in reply to that request: its response and its list
\* events, all with the ActionID of the request
ReplyShapes ==
    {shape \in ListShapes : shape.aid = "a1"}
    \cup [kind : {KEY_RESPONSE}, name : {"Success"}, aid : {"a1"}]

\* The server replies once the request has been written to the socket, and
\* sends nothing before
ReaderReplies == calls > 0 /\ a_pc # "send" /\ ReaderRead(ReplyShapes)

\* The caller, the reader and the dispatcher run in any interleaving of the
\* steps of send_action
NextRace ==
    \/ Tick
    \/ ReaderReplies
    \/ SendActionOnce
    \/ SendActionSendMessage
    \/ SendActionSetUp
    \/ SendActionPoll
    \/ SendActionReturn
    \/ DispatcherEvents
    \/ DispatcherInvoke
    \/ DispatcherOrphanedResponses
    \/ DispatcherSleep

SpecRace == Init /\ [][NextRace]_vars

\* Two application threads register and unregister callbacks at the same
\* time
NextRegistry ==
    \/ RegisterCallbackUnregister
    \/ RegisterCallbackAppend
    \/ UnregisterCallback
    \/ SecondRegisterUnregister
    \/ SecondRegisterAppend

SpecRegistry == Init /\ [][NextRegistry]_vars

\* A server that never stops sending: the reader puts a Newchannel event
\* without ActionID into the events queue whenever the queue is empty. The
\* serial numbers beyond MaxMsgs are folded onto MaxMsgs.
ReaderFlow ==
    /\ UNCHANGED session_vars
    /\ event_queue = <<>>
    /\ wire_count' = IF wire_count < MaxMsgs THEN wire_count + 1 ELSE wire_count
    /\ event_queue' =
          <<Message(wire_count', [kind |-> KEY_EVENT, name |-> "Newchannel", aid |-> NoId])>>
    /\ UNCHANGED <<response_queue, served_requests, response_history,
                   outstanding_requests, event_aggregates, registry_vars,
                   dispatcher_vars, send_vars, a_pc, a_timeout, dispatch_history,
                   h_timed_out>>

\* The application sends asynchronous requests that ask for an aggregate
SendActionAsynchronous == SendActionBegin({CoreShowChannels(TRUE, FALSE)})

\* Manager._event_dispatcher, lines 200-201: the decrement that brings the
\* countdown to 0
CountdownEnds ==
    DispatcherSleep /\ event_aggregate_cycle = REAP_CYCLE /\ event_aggregate_cycle' = 0

NextFlow ==
    \/ Tick
    \/ ReaderFlow
    \/ SendActionAsynchronous
    \/ SendActionTransmit
    \/ SendActionPoll
    \/ SendActionReturn
    \/ DispatcherEvents
    \/ DispatcherInvoke
    \/ DispatcherOrphanedResponses
    \/ DispatcherSleep

\* The dispatcher thread keeps running, and REAP_CYCLE decrements bring the
\* countdown to 0
SpecFlow ==
    /\ Init
    /\ [][NextFlow]_vars
    /\ WF_vars(DispatcherEvents)
    /\ WF_vars(DispatcherInvoke)
    /\ WF_vars(DispatcherOrphanedResponses)
    /\ WF_vars(DispatcherSleep)
    /\ SF_vars(CountdownEnds)

\* The server sends events, and answers requests with success
ReaderRun ==
    ReaderRead(EventShapes \cup [kind : {KEY_RESPONSE}, name : {"Success"}, aid : ActionIDs])

Next ==
    \/ Tick
    \/ ReaderRun
    \/ SendActionRegister
    \/ SendActionTransmit
    \/ SendActionPoll
    \/ SendActionReturn
    \/ DispatcherEvents
    \/ DispatcherInvoke
    \/ DispatcherOrphanedResponses
    \/ DispatcherSleep

Spec == Init /\ [][Next]_vars

\* The application registers and unregisters callbacks while the server sends
\* unsolicited events and responses
ReaderRunUnsolicited ==
    ReaderRead([kind : {KEY_EVENT}, name : {"Newchannel", "CoreShowChannel"}, aid : {NoId}]
               \cup [kind : {KEY_RESPONSE}, name : {"Success"}, aid : {NoId}])

NextCallbacks ==
    \/ RegisterCallbackUnregister
    \/ RegisterCallbackAppend
    \/ UnregisterCallback
    \/ ReaderRunUnsolicited
    \/ DispatcherEvents
    \/ DispatcherInvoke
    \/ DispatcherOrphanedResponses
    \/ DispatcherSleep

SpecCallbacks == InitCallbacks /\ [][NextCallbacks]_vars

\* The connection comes and goes: the application connects, disconnects and
\* closes at will, sends requests, and uses the socket directly; the server
\* may close its end. No message is routed.
InitSession ==
    /\ InitMessaging
    /\ event_callbacks = <<>>
    /\ h_stamp = [d \in CallbackDefinitions |-> 0]
    /\ outstanding_requests = [k \in SessionKeys |-> NoRequest]
    /\ InitConstructed
    /\ action_id_counter = Zero

ReaderRuns == \E i \in Sockets : ReaderThread(i)
SendActionChecks == SendActionConnected({"a1"}, {NoId})

NextSession ==
    \/ ManagerConnect
    \/ ManagerDisconnect
    \/ ManagerClose
    \/ ManagerCloseJoin
    \/ DispatcherExit
    \/ SocketClose
    \/ SocketSendMessage
    \/ PeerCloses
    \/ ReaderRuns
    \/ SendActionChecks
    \/ SendActionBuild
    \/ SendActionSend
    \/ SendActionServe
    \/ SendActionRaise

SpecSession == InitSession /\ [][NextSession]_vars

\* The ActionIDs of the requests: the application sends requests with and
\* without an action_id argument and an 'ActionID' entry, over a connection
\* that may break, on a manager that is new or has generated 0xFFFFFFFE
\* ActionIDs already
InitActionIds ==
    /\ InitMessaging
    /\ event_callbacks = <<>>
    /\ h_stamp = [d \in CallbackDefinitions |-> 0]
    /\ outstanding_requests = [k \in SessionKeys |-> NoRequest]
    /\ InitConnected
    /\ action_id_counter \in {Zero, LongRunning}

SendActionResolves == SendActionConnected({NoId, "a1"}, {NoId, "a2"})

NextActionIds ==
    \/ GetHostActionId
    \/ SendActionResolves
    \/ SendActionBuild
    \/ SendActionSend
    \/ SendActionServe

SpecActionIds == InitActionIds /\ [][NextActionIds]_vars

\* The readers: the application connects, disconnects and closes, the server
\* may close its end, and the threads of the readers are scheduled: a reader
\* that can take a step takes one in the end
NextReader ==
    \/ ManagerConnect
    \/ ManagerDisconnect
    \/ ManagerClose
    \/ ManagerCloseJoin
    \/ DispatcherExit
    \/ SocketClose
    \/ PeerCloses
    \/ ReaderRuns

SpecReader ==
    InitSession /\ [][NextReader]_vars /\ \A i \in Sockets : WF_vars(ReaderThread(i))

\* A script: the engine is constructed, the script calls execute, Asterisk
\* answers with any line, and the SIGHUP may arrive at any time
NextScript ==
    \/ Construct
    \/ HandleSighup
    \/ ExecuteTest
    \/ ExecuteSend
    \/ ExecuteGetResult
    \/ ExecuteUsage

SpecScript == Init /\ [][NextScript]_vars

\* ------------------------------------------------- _SynchronisedSocket
\* The methods each thread calls: the reader thread reads, an application
\* thread sends, and another one asks for the state or closes
ThreadOps(t) ==
    CASE t = "reader" -> {"read_message"}
      [] t = "sender" -> {"send_message"}
      [] OTHER -> {"close", "is_connected"}

\* What a line read from the stream is to read_message
Lines == {"blank", "line", "indicator", "eoc", "eof"}
\* How readline ends: with a line, or with socket.timeout, socket.error or
\* AttributeError
ReadEnds == Lines \cup {"timeout", "error", "undefined"}
\* How sendall ends
SendEnds == {"sent", "error"}

Returned_(value) == [kind |-> "returned", value |-> value]
Raised_(value) == [kind |-> "raised", value |-> value]

\* A single lock for both paths
Wanted_one_lock(pc) ==
    IF pc \in {"check", "read", "write", "close"} THEN "read" ELSE "none"

\* The lock the `with` statement a thread has come to asks for
Wanted(pc) ==
    CASE pc = "check" -> "write"
      [] pc = "read" -> "read"
      [] pc = "write" -> "write"
      [] pc = "close" -> "write"
      [] OTHER -> "none"

Holder(lock) == IF lock = "read" THEN socket_read_lock ELSE socket_write_lock

\* threading.Lock.acquire at the head of a `with` statement: the thread waits
\* until the lock is free
Acquire(t, next_pc) ==
    /\ Wanted(t_pc[t]) # "none"
    /\ Holder(Wanted(t_pc[t])) = NoThread
    /\ IF Wanted(t_pc[t]) = "read"
       THEN socket_read_lock' = t /\ UNCHANGED socket_write_lock
       ELSE socket_write_lock' = t /\ UNCHANGED socket_read_lock
    /\ t_pc' = [t_pc EXCEPT ![t] = next_pc]

\* The end of the `with` statement a thread entered at with_pc: the lock it
\* took there is released
Release(t, with_pc) ==
    IF Wanted(with_pc) = "read"
    THEN /\ socket_read_lock' = (IF socket_read_lock = t THEN NoThread ELSE socket_read_lock)
         /\ UNCHANGED socket_write_lock
    ELSE /\ socket_write_lock' = (IF socket_write_lock = t THEN NoThread ELSE socket_write_lock)
         /\ UNCHANGED socket_read_lock

\* An access to _connected, with the locks the thread holds at that moment
Access(t, by, kind) ==
    [thread |-> t, by |-> by, kind |-> kind, write_locked |-> (socket_write_lock = t),
     read_locked |-> (socket_read_lock = t)]

\* _close
Socket_close(t, by) ==
    /\ socket_connected' = FALSE
    /\ h_access' = Access(t, by, "write")

\* A thread calls one of the methods of the socket
Call(t) ==
    /\ t_pc[t] = "idle"
    /\ \E op \in ThreadOps(t) :
        /\ t_op' = [t_op EXCEPT ![t] = op]
        /\ t_pc' = [t_pc EXCEPT ![t] = IF op = "close" THEN "close" ELSE "check"]
    /\ t_outcome' = [t_outcome EXCEPT ![t] = NoEnd]
    /\ UNCHANGED <<socket_read_lock, socket_write_lock, socket_connected,
                   response_lines, wait_for_marker, h_access>>
    /\ UNCHANGED h_partial
    /\ UNCHANGED <<manager_vars, second_vars, order_vars, agi_vars>>

\* is_connected: the write lock is taken
IsConnectedEnter(t) ==
    /\ t_pc[t] = "check"
    /\ Acquire(t, "flag")
    /\ UNCHANGED <<socket_connected, t_op, t_outcome, response_lines, wait_for_marker,
                   h_access>>
    /\ UNCHANGED h_partial
    /\ UNCHANGED <<manager_vars, second_vars, order_vars, agi_vars>>

\* is_connected: _connected is read and the lock released; read_message and
\* send_message raise ManagerSocketError when it is False
IsConnectedReturn(t) ==
    /\ t_pc[t] = "flag"
    /\ h_access' = Access(t, "is_connected", "read")
    /\ Release(t, "check")
    /\ IF t_op[t] = "is_connected"
       THEN /\ t_pc' = [t_pc EXCEPT ![t] = "idle"]
            /\ t_outcome' = [t_outcome EXCEPT ![t] =
                                Returned_(IF socket_connected THEN "True" ELSE "False")]
       ELSE IF ~socket_connected
       THEN /\ t_pc' = [t_pc EXCEPT ![t] = "idle"]
            /\ t_outcome' = [t_outcome EXCEPT ![t] = Raised_("ManagerSocketError")]
       ELSE /\ t_pc' = [t_pc EXCEPT ![t] =
                            IF t_op[t] = "read_message" THEN "read" ELSE "write"]
            /\ UNCHANGED t_outcome
    /\ response_lines' = (IF t_op[t] = "read_message" THEN 0 ELSE response_lines)
    /\ wait_for_marker' = (IF t_op[t] = "read_message" THEN FALSE ELSE wait_for_marker)
    /\ UNCHANGED <<socket_connected, t_op>>
    /\ UNCHANGED h_partial
    /\ UNCHANGED <<manager_vars, second_vars, order_vars, agi_vars>>

\* read_message: the read lock is taken for one line
ReadLock(t) ==
    /\ t_pc[t] = "read"
    /\ Acquire(t, "readline")
    /\ UNCHANGED <<socket_connected, t_op, t_outcome, response_lines, wait_for_marker,
                   h_access>>
    /\ UNCHANGED h_partial
    /\ UNCHANGED <<manager_vars, second_vars, order_vars, agi_vars>>

\* read_message: readline ends, the read lock is released, and the line is
\* added to the message or ends it
Readline(t) ==
    /\ t_pc[t] = "readline"
    /\ Release(t, "read")
    /\ \E got \in ReadEnds :
        /\ got \in Lines => socket_connected
        /\ CASE got = "timeout" ->
                  /\ t_pc' = [t_pc EXCEPT ![t] = "idle"]
                  /\ t_outcome' = [t_outcome EXCEPT ![t] = Returned_("None")]
                  /\ h_partial' = response_lines
                  /\ UNCHANGED <<socket_connected, response_lines, wait_for_marker,
                                 h_access>>
             [] got = "error" ->
                  /\ Socket_close(t, "read failure")
                  /\ t_pc' = [t_pc EXCEPT ![t] = "idle"]
                  /\ t_outcome' = [t_outcome EXCEPT ![t] = Raised_("ManagerSocketError")]
                  /\ h_partial' = 0
                  /\ UNCHANGED <<response_lines, wait_for_marker>>
             [] got = "undefined" ->
                  /\ t_pc' = [t_pc EXCEPT ![t] = "idle"]
                  /\ t_outcome' = [t_outcome EXCEPT ![t] = Raised_("ManagerSocketError")]
                  /\ h_partial' = 0
                  /\ UNCHANGED <<socket_connected, response_lines, wait_for_marker,
                                 h_access>>
             [] got = "blank" /\ ~wait_for_marker ->
                  /\ IF response_lines > 0
                     THEN /\ t_pc' = [t_pc EXCEPT ![t] = "idle"]
                          /\ t_outcome' = [t_outcome EXCEPT ![t] = Returned_("Message")]
                          /\ h_partial' = 0
                     ELSE /\ t_pc' = [t_pc EXCEPT ![t] = "read"]
                          /\ UNCHANGED <<t_outcome, h_partial>>
                  /\ UNCHANGED <<socket_connected, response_lines, wait_for_marker,
                                 h_access>>
             [] got = "eoc" /\ wait_for_marker ->
                  /\ t_pc' = [t_pc EXCEPT ![t] = "idle"]
                  /\ t_outcome' = [t_outcome EXCEPT ![t] = Returned_("Message")]
                  /\ h_partial' = 0
                  /\ UNCHANGED <<socket_connected, response_lines, wait_for_marker,
                                 h_access>>
             [] OTHER ->
                  /\ wait_for_marker' = (wait_for_marker \/ got = "indicator")
                  /\ response_lines' = IF response_lines < MaxLines
                                       THEN response_lines + 1 ELSE response_lines
                  /\ t_pc' = [t_pc EXCEPT ![t] = "read"]
                  /\ UNCHANGED <<socket_connected, t_outcome, h_access, h_partial>>
    /\ UNCHANGED t_op
    /\ UNCHANGED <<manager_vars, second_vars, order_vars, agi_vars>>

\* send_message: the write lock is taken
WriteLock(t) ==
    /\ t_pc[t] = "write"
    /\ Acquire(t, "sendall")
    /\ UNCHANGED <<socket_connected, t_op, t_outcome, response_lines, wait_for_marker,
                   h_access>>
    /\ UNCHANGED h_partial
    /\ UNCHANGED <<manager_vars, second_vars, order_vars, agi_vars>>

\* send_message: sendall ends; on socket.error the socket is closed; the
\* write lock is released
Sendall(t) ==
    /\ t_pc[t] = "sendall"
    /\ Release(t, "write")
    /\ \E got \in SendEnds :
        /\ got = "sent" => socket_connected
        /\ IF got = "sent"
           THEN /\ t_outcome' = [t_outcome EXCEPT ![t] = Returned_("None")]
                /\ UNCHANGED <<socket_connected, h_access>>
           ELSE /\ Socket_close(t, "write failure")
                /\ t_outcome' = [t_outcome EXCEPT ![t] = Raised_("ManagerSocketError")]
    /\ t_pc' = [t_pc EXCEPT ![t] = "idle"]
    /\ UNCHANGED <<t_op, response_lines, wait_for_marker>>
    /\ UNCHANGED h_partial
    /\ UNCHANGED <<manager_vars, second_vars, order_vars, agi_vars>>

\* close: the write lock is taken
CloseLock(t) ==
    /\ t_pc[t] = "close"
    /\ Acquire(t, "closing")
    /\ UNCHANGED <<socket_connected, t_op, t_outcome, response_lines, wait_for_marker,
                   h_access>>
    /\ UNCHANGED h_partial
    /\ UNCHANGED <<manager_vars, second_vars, order_vars, agi_vars>>

\* close: _close, and the write lock is released
CloseReturn(t) ==
    /\ t_pc[t] = "closing"
    /\ Socket_close(t, "close")
    /\ Release(t, "close")
    /\ t_pc' = [t_pc EXCEPT ![t] = "idle"]
    /\ t_outcome' = [t_outcome EXCEPT ![t] = Returned_("None")]
    /\ UNCHANGED <<t_op, response_lines, wait_for_marker>>
    /\ UNCHANGED h_partial
    /\ UNCHANGED <<manager_vars, second_vars, order_vars, agi_vars>>

\* The threads of one socket, in any interleaving of their steps
NextSocket ==
    \E t \in SocketThreads :
        \/ Call(t)
        \/ IsConnectedEnter(t)
        \/ IsConnectedReturn(t)
        \/ ReadLock(t)
        \/ Readline(t)
        \/ WriteLock(t)
        \/ Sendall(t)
        \/ CloseLock(t)
        \/ CloseReturn(t)

SpecSocket == Init /\ [][NextSocket]_vars

\* ---------------------------------------------------------- lock order
\* The statements of a routine that matter to the locks, in program order
Acq(lock) == [op |-> "acquire", lock |-> lock, unwind |-> {}, to |-> 0]
Rel(lock) == [op |-> "release", lock |-> lock, unwind |-> {}, to |-> 0]
\* A statement that takes no lock (a blocking call, a sleep)
Step == [op |-> "step", lock |-> "none", unwind |-> {}, to |-> 0]
\* A statement that may raise, or return, out of the `with` blocks of the
\* given locks: the routine ends there and the locks are released
Raises(unwind) == [op |-> "raise", lock |-> "none", unwind |-> unwind, to |-> 0]
\* A branch or the end of a loop: control goes on, or skips the next k
\* statements, or goes back k statements
MaySkip(k) == [op |-> "jump", lock |-> "none", unwind |-> {}, to |-> k + 1]
MayRepeat(k) == [op |-> "jump", lock |-> "none", unwind |-> {}, to |-> 0 - k]
\* A callback of the application is called
Invoke == [op |-> "invoke", lock |-> "none", unwind |-> {}, to |-> 0]

\* Manager.is_connected, lines 384-389, with _SynchronisedSocket.is_connected,
\* lines 1096-1101, called when there is a connection
Manager_is_connected ==
    <<Acq("connection_lock"), MaySkip(2), Acq("socket_write_lock"),
      Rel("socket_write_lock"), Rel("connection_lock")>>

\* Manager.disconnect, lines 350-362, with _SynchronisedSocket.close, lines
\* 1072-1077, called when there is a connection
Manager_disconnect ==
    <<Acq("connection_lock"), MaySkip(2), Acq("socket_write_lock"),
      Rel("socket_write_lock"), Rel("connection_lock")>>

\* Manager.connect, lines 342-347: disconnect, then the socket is constructed
\* (which may fail) and the reader started under the connection lock
Manager_connect ==
    Manager_disconnect
    \o <<Acq("connection_lock"), Raises({"connection_lock"}), Step,
         Rel("connection_lock")>>

\* Manager.register_callback, lines 448-451, with _unregister_callback, lines
\* 459-463
Manager_register_callback ==
    <<Raises({}), Acq("event_callbacks_lock"), Rel("event_callbacks_lock"),
      Acq("event_callbacks_lock"), Rel("event_callbacks_lock")>>

\* Manager.unregister_callback, lines 472-473 and 459-463
Manager_unregister_callback ==
    <<Raises({}), Acq("event_callbacks_lock"), Rel("event_callbacks_lock")>>

\* Manager.send_action, lines 508-566, with the routines it calls
Manager_send_action ==
    Manager_is_connected                                        \* 508
    \o <<Raises({}),                                            \* 509
         MaySkip(2), Acq("action_id_lock"), Rel("action_id_lock"),        \* 511, 304
         Acq("connection_lock"), Rel("connection_lock"),        \* 512, 576
         Acq("connection_lock"),                                \* 513
         Raises({"connection_lock"}),                           \* 514: no connection
         Acq("socket_write_lock"), Rel("socket_write_lock"),    \* 1154, 1100
         Raises({"connection_lock"}),                           \* 1155
         Acq("socket_write_lock"), Step,                        \* 1158-1160
         Raises({"connection_lock", "socket_write_lock"}),      \* 1161-1163
         Rel("socket_write_lock"), Rel("connection_lock"),
         MaySkip(2), Acq("event_aggregates_lock"), Rel("event_aggregates_lock"),  \* 516-518
         MaySkip(5),                                            \* 530-531
         Acq("connection_lock"), Acq("served_requests_lock"),   \* 532-533, 991
         Rel("served_requests_lock"), Rel("connection_lock"),
         Raises({}),                                            \* 535
         MaySkip(2), Acq("connection_lock"), Rel("connection_lock"),      \* 540, 601
         Step, MayRepeat(10),                                   \* 542, 530
         Acq("connection_lock"), Rel("connection_lock")>>       \* 550, 634

\* _MessageReader.run, lines 1006-1036, with read_message, lines 1111-1149,
\* and _clean_orphaned_responses, lines 973-982
MessageReader_run ==
    <<Acq("socket_write_lock"), Rel("socket_write_lock"),       \* 1111, 1100
      Raises({}),                                               \* 1112, 1013
      Acq("socket_read_lock"), Step,                            \* 1123-1125
      Raises({"socket_read_lock"}),                             \* 1128-1134
      Rel("socket_read_lock"),
      MayRepeat(7),                                             \* 1126-1127, 1011
      MayRepeat(5),                                             \* 1122
      MaySkip(4),                                               \* 1017, 1035
      Acq("served_requests_lock"), Rel("served_requests_lock"), \* 1029, 974
      Acq("served_requests_lock"), Rel("served_requests_lock"), \* 1030
      MayRepeat(14)>>                                           \* 1008

\* A dispatcher that calls the callbacks inside the callbacks lock
DispatcherCallbacks_locked ==
    <<Acq("event_callbacks_lock"), MaySkip(2), Invoke, MayRepeat(1),
      Rel("event_callbacks_lock")>>

\* Manager._event_dispatcher_events, lines 240-258, and
\* _event_dispatcher_orphaned_responses, lines 277-295: the callbacks are
\* gathered under the callbacks lock and then called one by one
DispatcherCallbacks ==
    <<Acq("event_callbacks_lock"), Rel("event_callbacks_lock"), MaySkip(2),
      Invoke, MayRepeat(1)>>

\* Manager._event_dispatcher, lines 174-201, with _event_dispatcher_events,
\* lines 210-261, and _event_dispatcher_orphaned_responses, lines 268-298
Manager_event_dispatcher ==
    <<Acq("connection_lock"), Rel("connection_lock"),           \* 177-178
      MayRepeat(2),                                             \* 179-181
      MaySkip(11),                                              \* 215-217, 236
      MaySkip(5),                                               \* 211-212
      Acq("connection_lock"), Rel("connection_lock"),           \* 220, 614
      MaySkip(7),                                               \* 221
      Acq("event_aggregates_lock"), Rel("event_aggregates_lock")>>   \* 224
    \o DispatcherCallbacks                                      \* 240-258
    \o <<MaySkip(5)>>                                           \* 274
    \o DispatcherCallbacks                                      \* 277-295
    \o <<MaySkip(4),                                            \* 186
         Step,                                                  \* 187
         MaySkip(2),                                            \* 189
         Acq("event_aggregates_lock"), Rel("event_aggregates_lock"), \* 192
         MayRepeat(26)>>                                        \* 174

\* The statements of a routine
Routine(name) ==
    CASE name = "is_connected" -> Manager_is_connected
      [] name = "disconnect" -> Manager_disconnect
      [] name = "connect" -> Manager_connect
      [] name = "register_callback" -> Manager_register_callback
      [] name = "unregister_callback" -> Manager_unregister_callback
      [] name = "send_action" -> Manager_send_action
      [] name = "run" -> MessageReader_run
      [] name = "_event_dispatcher" -> Manager_event_dispatcher
      [] OTHER -> <<>>

\* What an application thread calls; a connect starts a reader thread
Repertoire(t) ==
    CASE t = "caller" -> {"send_action", "is_connected"}
      [] t = "admin" -> {"connect", "disconnect", "register_callback",
                         "unregister_callback"}
      [] t = "reader" -> {"run"}
      [] OTHER -> {}
\* What a callback may call
Callables == {"register_callback", "unregister_callback", "send_action"}

\* The statement a thread has come to
OpAt(t) ==
    IF l_pc[t] = Idle THEN [op |-> "idle", lock |-> "none", unwind |-> {}, to |-> 0]
    ELSE Routine(l_pc[t].routine)[l_pc[t].at]
HeldBy(t) == {l \in Locks : l_held[l] = t}

\* Where control can come to rest from a position: at an acquire, a release,
\* a call of a callback or a statement that may unwind a `with` block. The
\* statements in between touch no lock and are run through, taking either
\* side of a branch; past the last statement of a routine control is back
\* where the routine was called from. n bounds the statements run through.
RECURSIVE Settled(_, _, _)
Settled(pos, ret, n) ==
    IF pos = Idle THEN {<<Idle, Idle>>}
    ELSE IF pos.at > Len(Routine(pos.routine))
    THEN IF n = 0 THEN {} ELSE Settled(ret, Idle, n - 1)
    ELSE LET o == Routine(pos.routine)[pos.at]
             on == [routine |-> pos.routine, at |-> pos.at + 1]
             branch == [routine |-> pos.routine, at |-> pos.at + o.to]
             out == [routine |-> pos.routine, at |-> Len(Routine(pos.routine)) + 1]
         IN  IF o.op \in {"acquire", "release", "invoke"} \/ o.unwind # {}
             THEN {<<pos, ret>>}
             ELSE IF n = 0 THEN {}
             ELSE IF o.op = "jump"
             THEN Settled(on, ret, n - 1) \cup Settled(branch, ret, n - 1)
             ELSE IF o.op = "raise"
             THEN Settled(on, ret, n - 1) \cup Settled(out, ret, n - 1)
             ELSE Settled(on, ret, n - 1)

\* The thread goes on from a position
Arrive(t, pos, ret) ==
    \E p \in Settled(pos, ret, Len(Manager_send_action)) :
        /\ l_pc' = [l_pc EXCEPT ![t] = p[1]]
        /\ l_ret' = [l_ret EXCEPT ![t] = p[2]]
\* The statement after the one a thread is at, and the end of its routine
After(t) == [routine |-> l_pc[t].routine, at |-> l_pc[t].at + 1]
Out(t) == [routine |-> l_pc[t].routine, at |-> Len(Routine(l_pc[t].routine)) + 1]

\* An application thread calls a method of the manager; a reader thread is
\* started
Enter(t) ==
    /\ l_pc[t] = Idle
    /\ \E name \in Repertoire(t) : Arrive(t, [routine |-> name, at |-> 1], Idle)
    /\ UNCHANGED <<l_held, h_order>>
    /\ UNCHANGED <<manager_vars, lock_vars, second_vars, agi_vars>>

\* The head of a `with` statement: threading.Lock.acquire waits until the lock
\* is free, whoever holds it
LockAcquire(t) ==
    /\ OpAt(t).op = "acquire"
    /\ l_held[OpAt(t).lock] = "none"
    /\ l_held' = [l_held EXCEPT ![OpAt(t).lock] = t]
    /\ h_order' = h_order \cup {<<l, OpAt(t).lock>> : l \in HeldBy(t)}
    /\ Arrive(t, After(t), l_ret[t])
    /\ UNCHANGED <<manager_vars, lock_vars, second_vars, agi_vars>>

\* The end of a `with` statement
LockRelease(t) ==
    /\ OpAt(t).op = "release"
    /\ l_held' = [l_held EXCEPT ![OpAt(t).lock] = "none"]
    /\ Arrive(t, After(t), l_ret[t])
    /\ UNCHANGED h_order
    /\ UNCHANGED <<manager_vars, lock_vars, second_vars, agi_vars>>

\* A statement inside a `with` block that may raise: it is done, or it raises
\* and the block's locks are released
Unwind(t) ==
    /\ OpAt(t).op = "raise"
    /\ \/ /\ Arrive(t, After(t), l_ret[t])
          /\ UNCHANGED l_held
       \/ /\ l_held' = [l \in Locks |->
                          IF l \in OpAt(t).unwind /\ l_held[l] = t THEN "none"
                          ELSE l_held[l]]
          /\ Arrive(t, Out(t), l_ret[t])
    /\ UNCHANGED h_order
    /\ UNCHANGED <<manager_vars, lock_vars, second_vars, agi_vars>>

\* A callback is called: it returns, or it calls a method of the manager
\* and the dispatcher goes on after the call once that method has returned
\* or raised (lines 249-258, 286-295)
InvokeCallback(t) ==
    /\ OpAt(t).op = "invoke"
    /\ \/ Arrive(t, After(t), l_ret[t])
       \/ \E name \in Callables : Arrive(t, [routine |-> name, at |-> 1], After(t))
    /\ UNCHANGED <<l_held, h_order>>
    /\ UNCHANGED <<manager_vars, lock_vars, second_vars, agi_vars>>

\* The threads of a manager, in any interleaving of their lock operations
NextOrder ==
    \E t \in LockThreads :
        \/ Enter(t)
        \/ LockAcquire(t)
        \/ LockRelease(t)
        \/ Unwind(t)
        \/ InvokeCallback(t)

SpecOrder == Init /\ [][NextOrder]_vars

\* ------------------------------------------------------------ properties
\* The response with serial number i is held in _served_requests
Held(i) == \E a \in ActionIDs : served_requests[a].present /\ served_requests[a].msg.id = i

\* C1 as stated: a response whose ActionID was in the outstanding-request
\* table when the reader parsed it is never put on the orphan-response queue.
C1_NeverOrphaned == \A i \in h_outstanding_at_parse : h_orphaned[i] = 0

\* C1: a response whose ActionID was outstanding when the reader parsed it is
\* returned by send_action or put on the orphan-response queue at most once in
\* all, it is put on the orphan-response queue only if a response was held
\* already for its ActionID when it was read or if nobody collected it during
\* its hold time, and send_action returns it only to a call that polls for its
\* ActionID.
C1_ResponseRouting ==
    /\ \A i \in h_outstanding_at_parse :
        /\ h_returned[i] + h_orphaned[i] <= 1
        /\ h_orphaned[i] = 1 => i \in h_duplicate \cup h_expired
        /\ Held(i) => h_returned[i] + h_orphaned[i] = 0
    /\ result.kind = "Response" => result.response.aid = result.action_id

\* C1: one response is returned to its caller and another one, read while the
\* first was held for the same outstanding ActionID, is orphaned
C1_Witness ==
    \E i, j \in h_outstanding_at_parse :
        h_returned[i] = 1 /\ h_orphaned[j] = 1 /\ j \in h_duplicate

\* C2: in a step in which the dispatcher drains an event whose ActionID is that
\* of an outstanding synchronous request, the event is stored in the request's
\* events map under its class and under its name (appended to the list of a
\* list class, set as the slot otherwise), its class leaves the pending
\* finalisers, no callback is gathered for it and no aggregate is touched.
C2_SynchronousBinding ==
    [][(/\ d_pc = "events" /\ d_pc' # "events"
        /\ event_aggregates_complete = <<>>
        /\ event_queue # <<>>
        /\ Head(event_queue).aid \in ActionIDs
        /\ outstanding_requests[Head(event_queue).aid].state = "sync")
       => LET event == Head(event_queue)
              before == outstanding_requests[event.aid]
              after == outstanding_requests'[event.aid]
          IN  /\ after.state = "sync"
              /\ after.events[ClassKey(event.name)] =
                    IF before.events[ClassKey(event.name)].kind = "list"
                    THEN [kind |-> "list",
                          val |-> Append(before.events[ClassKey(event.name)].val, event.id)]
                    ELSE [kind |-> "slot", val |-> <<event.id>>]
              /\ after.events[EVENT_REGISTRY_REV(event.name)] =
                    after.events[ClassKey(event.name)]
              /\ \A k \in Keys \ {ClassKey(event.name), EVENT_REGISTRY_REV(event.name)} :
                    after.events[k] = before.events[k]
              /\ after.pending = before.pending \ {event.name}
              /\ d_callbacks' = <<>>
              /\ d_pc' = "orphans"
              /\ h_invoked' = <<>>
              /\ event_aggregates' = event_aggregates
              /\ event_aggregates_complete' = event_aggregates_complete
      ]_vars

\* C2: a list event has just been bound to its synchronous request
C2_Witness ==
    /\ d_pc = "orphans"
    /\ d_event.kind = KEY_EVENT
    /\ d_event.name = "CoreShowChannel"
    /\ d_event.aid \in ActionIDs
    /\ outstanding_requests[d_event.aid].state = "sync"
    /\ outstanding_requests[d_event.aid].events[EVENT_REGISTRY_REV("CoreShowChannel")].val
          = <<d_event.id>>
    /\ h_invoked = <<>>

\* C3 as stated: when the dispatcher offers an event with ActionID T to the
\* pending aggregates, the offering is ended (a non-null evaluation) only by an
\* aggregate whose own ActionID is T.
C3_AggregateBinding ==
    (d_event.kind = KEY_EVENT /\ d_event.aid \in ActionIDs /\ h_ended_by # NoId)
        => h_ended_by = d_event.aid

\* C4: after send_action has returned, a Response or None, and until the next
\* call, the ActionID it used is not in the outstanding-request table.
C4_Deregistered ==
    (a_pc = "idle" /\ result.kind # "none")
        => outstanding_requests[result.action_id].state = "absent"

\* C4: a synchronous call has returned after its event collection timed out
C4_Witness ==
    /\ a_pc = "idle"
    /\ result.kind = "Response"
    /\ result.events_timeout
    /\ outstanding_requests[result.action_id].state = "absent"

\* C5 as stated: a response read after the request of its ActionID timed out
\* goes to the orphan-response queue, so that no send_action call returns it.
C5_LateToOrphans == \A i \in h_late_at_parse : h_returned[i] = 0

\* C5: a response read after the request of its ActionID timed out is put on
\* the orphan-response queue only if a response was held already for its
\* ActionID when it was read or if nobody collected it during its hold time;
\* until then it is held, and a send_action call may return it.
C5_LateResponseHeld ==
    \A i \in h_late_at_parse :
        /\ h_orphaned[i] = 1 => i \in h_duplicate \cup h_expired
        /\ h_orphaned[i] = 0 => (Held(i) \/ a_response.id = i \/ h_returned[i] = 1)

\* C5: a late response was held, and orphaned when its hold time was over
C5_Witness == \E i \in h_late_at_parse : i \in h_expired /\ h_orphaned[i] = 1

\* send_action returns in this step
Returning == a_pc = "serve" /\ a_pc' = "idle"

DeclaredAggregates(request, action_id) ==
    [i \in 1..Len(request.aggregates) |->
        [name |-> request.aggregates[i], action_id |-> action_id]]

\* The classes and ActionIDs of the entries of the pending-aggregate list from
\* index n on
AggregatesFrom(list, n) ==
    [i \in 1..(Len(list) - n + 1) |->
        [name |-> list[i + n - 1].aggregate.name,
         action_id |-> list[i + n - 1].aggregate.action_id]]

\* C7 as stated: a send_action call adds no aggregate for a synchronous
\* request, and one aggregate per declared class for a request that is not
\* synchronous and declares aggregate classes.
C7_AggregatesIfDeclared ==
    [][(a_pc = "send" /\ a_pc' = "poll")
       => /\ Len(event_aggregates') >= Len(event_aggregates)
          /\ AggregatesFrom(event_aggregates', Len(event_aggregates) + 1) =
                IF a_request.synchronous
                THEN <<>>
                ELSE DeclaredAggregates(a_request, a_action_id)
      ]_vars

\* C7: a send_action call registers an events map for a synchronous request
\* and adds no aggregate; for a request that is not synchronous it registers
\* no events map, and adds one aggregate per declared class, stamped with the
\* ActionID, if the request's aggregate attribute is set and none if it is not.
C7_AggregatesOrEvents ==
    [][/\ (a_pc = "idle" /\ a_pc' = "send")
          => /\ outstanding_requests'[a_action_id'].state =
                   IF a_request'.synchronous THEN "sync" ELSE "async"
             /\ \A k \in Keys :
                   outstanding_requests'[a_action_id'].events[k].kind # "absent"
                      <=> /\ a_request'.synchronous
                          /\ \E c \in a_request'.uniques \cup a_request'.lists
                                      \cup a_request'.finalising :
                                k \in {ClassKey(c), EVENT_REGISTRY_REV(c)}
             /\ event_aggregates' = event_aggregates
       /\ (a_pc = "send" /\ a_pc' = "poll")
          => /\ Len(event_aggregates') >= Len(event_aggregates)
             /\ SubSeq(event_aggregates', 1, Len(event_aggregates)) = event_aggregates
             /\ AggregatesFrom(event_aggregates', Len(event_aggregates) + 1) =
                   IF ~a_request.synchronous /\ a_request.aggregate
                   THEN DeclaredAggregates(a_request, a_action_id)
                   ELSE <<>>
       /\ (Returning /\ a_response # NoMsg)
          => result'.has_events = a_request.synchronous
      ]_vars

\* C7: a call for a request that is not synchronous and has its aggregate
\* attribute set has added its aggregate and registered no events map
C7_Witness ==
    /\ a_pc = "poll"
    /\ ~a_request.synchronous
    /\ a_request.aggregate
    /\ outstanding_requests[a_action_id].state = "async"
    /\ \E i \in 1..Len(event_aggregates) :
          /\ event_aggregates[i].aggregate.action_id = a_action_id
          /\ event_aggregates[i].aggregate.name = "CoreShowChannels_Aggregate"

\* The entries of a gathered registry that match an event: those registered
\* for its name and those registered for every event
Matching(registry, event_name) ==
    {i \in 1..Len(registry) :
        \/ /\ registry[i].definition[1] = CALLBACK_TYPE_REFERENCE
           /\ registry[i].definition[2] = event_name
        \/ registry[i].definition[1] = CALLBACK_TYPE_UNIVERSAL}

\* C8: the callbacks invoked for a dispatched event are the matching callbacks
\* in the order of their registration: the k-th one invoked is the one with
\* k - 1 matching callbacks registered before it.
C8_CallbackOrder ==
    (d_event.kind = KEY_EVENT /\ d_worked)
        => \A k \in 1..Len(h_invoked) :
              \E i \in Matching(h_registry, d_event.name) :
                  /\ h_registry[i].definition[3] = h_invoked[k]
                  /\ Cardinality({j \in Matching(h_registry, d_event.name) :
                                     h_registry[j].stamp < h_registry[i].stamp}) = k - 1

\* C8: two callbacks have been invoked for an event, the first of them
\* registered for every event and the second for the event's name
C8_Witness ==
    /\ d_event.kind = KEY_EVENT
    /\ Len(h_invoked) = 2
    /\ h_invoked[1] # h_invoked[2]
    /\ \E i, j \in Matching(h_registry, d_event.name) :
          /\ h_registry[i].stamp < h_registry[j].stamp
          /\ h_registry[i].definition = <<CALLBACK_TYPE_UNIVERSAL, NoId, h_invoked[1]>>
          /\ h_registry[j].definition[1] = CALLBACK_TYPE_REFERENCE

\* C9: an event from the wire whose callbacks are being invoked was read after
\* every event that has been given to a callback before.
C9_ArrivalOrder ==
    (d_pc = "callbacks" /\ d_event.kind = KEY_EVENT)
        => \A i \in h_delivered : i <= d_event.id

\* C9: two events have been given to callbacks
C9_Witness == h_delivered = {1, 2} /\ d_event.id = 2 /\ d_pc = "orphans"

\* C10 as stated: an event that a pending aggregate has consumed is not passed
\* to the event callbacks.
C10_ConsumedNotPublished ==
    (d_event.kind = KEY_EVENT /\ h_consumed) => (h_invoked = <<>> /\ d_callbacks = <<>>)

\* C10: once the dispatcher is through with an event that was not bound to a
\* synchronous request, every matching callback (registered for its name or
\* for every event) has been invoked exactly once for it, whether or not a
\* pending aggregate consumed it.
C10_EveryMatchingCallbackOnce ==
    (d_event.kind = KEY_EVENT /\ d_worked /\ d_pc \in {"orphans", "sleep"})
        => \A f \in Functions :
              Cardinality({k \in 1..Len(h_invoked) : h_invoked[k] = f}) =
              Cardinality({i \in Matching(h_registry, d_event.name) :
                              h_registry[i].definition[3] = f})

\* C10: the callbacks have been invoked for an event that an aggregate consumed
C10_Witness ==
    /\ d_event.kind = KEY_EVENT
    /\ d_pc = "orphans"
    /\ h_consumed
    /\ h_invoked # <<>>

\* A list without the entries equal to a definition
Without(callbacks, definition) == SelectSeq(callbacks, LAMBDA d : d # definition)

\* register_callback returns in this step
Registered == a_pc = "append" /\ a_pc' = "idle"

\* unregister_callback is called and returns in this step
Unregistered == a_pc = "idle" /\ a_pc' = "idle" /\ regs' = regs + 1

\* C11: when register_callback returns for a definition that was in the
\* registry when it was called, the registry is the one of before the call
\* with that definition taken out and put at the end: one copy, after all
\* other entries, which keep their order.
C11_ReRegisterMovesToEnd ==
    [][(Registered /\ \E i \in 1..Len(h_before) : h_before[i] = a_definition)
       => /\ event_callbacks' = Append(Without(h_before, a_definition), a_definition)
          /\ Cardinality({i \in 1..Len(event_callbacks') :
                             event_callbacks'[i] = a_definition}) = 1
      ]_vars

\* C11: a definition that was first of two entries has been registered again
C11_Witness ==
    /\ a_pc = "idle"
    /\ h_call.op = "register"
    /\ Len(h_before) = 2
    /\ h_before[1] = h_call.definition
    /\ event_callbacks = <<h_before[2], h_before[1]>>

\* C12: unregister_callback removes the one entry equal to the compiled
\* definition and returns true, leaving the other entries and their order as
\* they were; if there is no such entry it returns false and leaves the
\* registry as it was.
C12_UnregisterOne ==
    [][Unregistered
       => IF \E i \in 1..Len(event_callbacks) : event_callbacks[i] = h_call'.definition
          THEN /\ h_call'.returned
               /\ \E i \in 1..Len(event_callbacks) :
                     /\ event_callbacks[i] = h_call'.definition
                     /\ event_callbacks' = Remove(event_callbacks, i)
          ELSE /\ ~h_call'.returned
               /\ event_callbacks' = event_callbacks
      ]_vars

\* C12: the first of two entries has been unregistered
C12_Witness ==
    /\ h_call.op = "unregister"
    /\ h_call.returned
    /\ Len(h_before) = 2
    /\ h_before[1] = h_call.definition
    /\ event_callbacks = <<h_before[2]>>

\* C13 as stated: register_callback(e, f) followed at once by
\* unregister_callback(e, f) leaves the callback list as it was before the pair.
C13_RegisterUnregisterNoOp ==
    [][(Unregistered /\ h_call.op = "register" /\ h_call'.definition = h_call.definition)
       => event_callbacks' = h_before
      ]_vars

\* C13: register_callback(e, f) followed at once by unregister_callback(e, f)
\* leaves the callback list as it was before the pair without the definition
\* compiled from (e, f): unchanged if the definition was not registered before
\* the pair, and with that definition removed if it was.
C13_RegisterUnregister ==
    [][(Unregistered /\ h_call.op = "register" /\ h_call'.definition = h_call.definition)
       => /\ event_callbacks' = Without(h_before, h_call.definition)
          /\ h_call'.returned
      ]_vars

\* C13: a registration has just been undone and other callbacks remain
C13_Witness ==
    /\ h_call.op = "unregister"
    /\ h_call.paired
    /\ event_callbacks # <<>>
    /\ Len(event_callbacks) = Len(h_before) - 1

\* ---------------------------------------------------------------------------
\* C14
\* ---------------------------------------------------------------------------

\* a step in which the callback invoked for d_event raises
CallbackRaises ==
    /\ d_pc \in {"callbacks", "orphan_callbacks"}
    /\ Len(h_invoked') = Len(h_invoked) + 1
    /\ h_raised'

\* C14: a callback that raises does not abort the dispatch: after the step in
\* which a callback raised, the callbacks gathered behind it for the same event
\* or orphaned response are still to be invoked, in their order, for the same
\* message, and when none is left the dispatcher goes on with its cycle (the
\* orphaned responses after an event, the end of the cycle after a response)
C14_RaiseDoesNotAbort ==
    [][CallbackRaises
        => /\ h_invoked' = Append(h_invoked, Head(d_callbacks))
           /\ d_callbacks' = Tail(d_callbacks)
           /\ d_event' = d_event
           /\ d_pc' = IF Tail(d_callbacks) # <<>> THEN d_pc
                      ELSE IF d_pc = "callbacks" THEN "orphans" ELSE "sleep"
           /\ event_queue' = event_queue
           /\ response_queue' = response_queue
      ]_vars

\* C14: the first of two callbacks gathered for an event has raised and the
\* second is about to be invoked
C14_Witness ==
    /\ d_pc = "callbacks"
    /\ d_event.kind = KEY_EVENT
    /\ h_raised
    /\ Len(h_invoked) = 1
    /\ Len(d_callbacks) = 1

\* ---------------------------------------------------------------------------
\* C15
\* ---------------------------------------------------------------------------

\* send_action builds its command and registers the ActionID
Built == s_pc = "build" /\ s_pc' = "send"

\* C15 as stated: the ActionID send_action uses for a request, which is sent
\* as exactly one ActionID header and is the key registered in the
\* outstanding-request table, is the action_id argument when one is given,
\* otherwise the request's own 'ActionID' entry when it has one, otherwise a
\* token generated for this call
C15_ActionIdResolution ==
    [][Built
        => LET expected == IF s_supplied # NoId THEN s_supplied
                           ELSE IF s_own # NoId THEN s_own
                           ELSE get_host_action_id(action_id_counter')
           IN  /\ h_command' = <<expected>>
               /\ s_key' = expected
               /\ outstanding_requests'[expected].state # "absent"
               /\ (s_supplied = NoId /\ s_own = NoId)
                     => /\ action_id_counter' # action_id_counter
                        /\ h_ids' = Append(h_ids, action_id_counter')
      ]_vars

\* ---------------------------------------------------------------------------
\* C16
\* ---------------------------------------------------------------------------

\* a caller has been given a value by the generator
Generated == h_ids' # h_ids

\* C16: the generator never yields 0: the value a call returns is the value
\* of the counter before the call plus one, except that after 0xFFFFFFFF it is
\* 1; so it lies in 1..0xFFFFFFFF, and it is not the value the call before it
\* returned, whichever thread made that call
C16_CounterNeverZero ==
    [][Generated
        => LET id == h_ids'[Len(h_ids')] IN
           /\ h_ids' = Append(h_ids, id)
           /\ id = action_id_counter'
           /\ id = IF action_id_counter = ACTION_ID_MAX THEN One
                   ELSE Successor(action_id_counter)
           /\ id # Zero
           /\ id.hi \in 0..(WORD - 1)
           /\ id.lo \in 0..(WORD - 1)
           /\ h_ids # <<>> => /\ h_ids[Len(h_ids)] = action_id_counter
                              /\ id # h_ids[Len(h_ids)]
      ]_vars

\* C16: the generator has returned 0xFFFFFFFF to one call and 1 to the next
C16_Witness ==
    /\ Len(h_ids) >= 2
    /\ h_ids[1] = ACTION_ID_MAX
    /\ h_ids[2] = One

\* ---------------------------------------------------------------------------
\* C17
\* ---------------------------------------------------------------------------

\* the state of the manager, its sockets and its threads
program_vars == <<messaging_vars, outstanding_requests, connection, message_reader,
                  alive, action_id_counter, dispatcher_running, sockets, connected, eof,
                  r_alive, r_pc, r_socket>>

\* the state Manager.disconnect leaves: no connection, no socket of the
\* manager connected, an empty outstanding-request table, the reader told to
\* stop
Disconnected ==
    /\ connection = 0
    /\ \A k \in DOMAIN outstanding_requests : outstanding_requests[k].state = "absent"
    /\ message_reader # 0 => ~r_alive[message_reader]

\* the state Manager.close leaves
Closed == Disconnected /\ ~alive /\ ~dispatcher_running

\* C17: close is idempotent. Every Manager.disconnect leaves the manager
\* disconnected, with the socket it used closed, and a disconnect of a
\* disconnected manager changes nothing; every Manager.close leaves it closed
\* once its join has returned, and a close of a closed manager changes
\* nothing; the close of a socket leaves its flag false, and the close of a
\* closed socket changes nothing. None of them has a way to raise.
C17_CloseIdempotent ==
    [][/\ h_closed' = "disconnect"
          => /\ Disconnected'
             /\ connection # 0 => ~connected'[connection]
             /\ Disconnected => UNCHANGED program_vars
       /\ (c_pc = "idle" /\ c_pc' = "join")
          => /\ Disconnected'
             /\ ~alive'
             /\ connection # 0 => ~connected'[connection]
             /\ Closed => UNCHANGED program_vars
       /\ (c_pc = "join" /\ c_pc' = "idle")
          => /\ ~dispatcher_running'
             /\ connection' = 0
             /\ ~alive'
             /\ UNCHANGED program_vars
       /\ h_closed' = "socket"
          => \E i \in 1..sockets :
                /\ ~connected'[i]
                /\ connected' = [connected EXCEPT ![i] = FALSE]
                /\ UNCHANGED <<messaging_vars, outstanding_requests, connection,
                               message_reader, alive, action_id_counter,
                               dispatcher_running, sockets, eof, r_alive, r_pc,
                               r_socket>>
      ]_vars

\* C17: Manager.disconnect has returned once more on a manager that had a
\* connection and whose close has completed
C17_Witness ==
    /\ h_closed = "disconnect"
    /\ sockets > 0
    /\ c_pc = "idle"
    /\ Closed

\* ---------------------------------------------------------------------------
\* C18
\* ---------------------------------------------------------------------------

Exited(i) == r_pc[i] \in {"exited", "crashed"}

CompleteIffFinalised(aggregate, event) ==
    LET r == evaluate_event(aggregate, event) IN
    /\ r.result = "True"
          <=> /\ event.name \in aggregation_finalisers(aggregate.name)
              /\ event.aid = aggregate.action_id
              /\ aggregate.pending \ {event.name} = {}
    /\ r.result = "True"
          => /\ r.aggregate.pending = {}
             /\ r.aggregate.items[ClassKey(event.name)] = EventSlot(event.id)

\* every finaliser class the aggregate declares has been stored in it
AllFinalisersArrived(aggregate) ==
    /\ aggregate.pending = {}
    /\ \A c \in aggregation_finalisers(aggregate.name) :
          /\ aggregate.items[ClassKey(c)].kind = "slot"
          /\ aggregate.items[ClassKey(c)].val # <<>>

\* what holds of the aggregates in every state: for each pending aggregate
\* and each event waiting in the queue, evaluate_event is as described; a
\* pending aggregate still waits for a finaliser; an aggregate handed over
\* for publication has all its finalisers
AggregatesConsistent ==
    /\ \A i \in 1..Len(event_aggregates), j \in 1..Len(event_queue) :
          CompleteIffFinalised(event_aggregates[i].aggregate, event_queue[j])
    /\ \A i \in 1..Len(event_aggregates) : event_aggregates[i].aggregate.pending # {}
    /\ \A i \in 1..Len(event_aggregates_complete) :
          AllFinalisersArrived(event_aggregates_complete[i])

\* C20: an aggregate is complete iff every declared finaliser class has been
\* received. evaluate_event returns true exactly for a finaliser that carries
\* the aggregate's ActionID and leaves no finaliser class pending; an
\* aggregate is handed to the dispatcher for publication only with all its
\* finalisers stored, in the step in which the finaliser of its ActionID is
\* taken from the queue, and in that step it leaves the pending list, so it
\* is handed over at most once
C20_CompleteIffFinalisersReceived ==
    [][/\ AggregatesConsistent
       /\ AggregatesConsistent'
       /\ Len(event_aggregates_complete') > Len(event_aggregates_complete)
          => LET handed == event_aggregates_complete'[Len(event_aggregates_complete')] IN
             /\ event_aggregates_complete' = Append(event_aggregates_complete, handed)
             /\ AllFinalisersArrived(handed)
             /\ event_queue # <<>>
             /\ Head(event_queue).name \in aggregation_finalisers(handed.name)
             /\ Head(event_queue).aid = handed.action_id
             /\ \E i \in 1..Len(event_aggregates) :
                   /\ event_aggregates[i].aggregate.action_id = handed.action_id
                   /\ handed = evaluate_event(event_aggregates[i].aggregate,
                                              Head(event_queue)).aggregate
                   /\ event_aggregates' = Remove(event_aggregates, i)
      ]_vars

\* C20: the finaliser of a pending aggregate has been taken from the queue
\* and the aggregate has been handed over for publication
C20_Witness ==
    /\ event_aggregates_complete # <<>>
    /\ d_event.kind = KEY_EVENT
    /\ d_event.name = "CoreShowChannelsComplete"
    /\ event_aggregates_complete[1].action_id = d_event.aid
    /\ event_aggregates_complete[1].items[ClassKey("CoreShowChannelsComplete")]
          = EventSlot(d_event.id)



\* ---------------------------------------------------------------- C21
\* The aggregate that the step hands to the finalised aggregates
Handed == event_aggregates_complete'[Len(event_aggregates_complete')]
\* The member events accumulated in an aggregate
MemberEvents(aggregate) == aggregate.items[ClassKey("CoreShowChannel")].val

\* C21: when a finaliser that carries the ListItems header completes an
\* aggregate, the aggregate's valid flag is true if and only if the header's
\* count equals the number of member events accumulated in the aggregate; the
\* aggregate then stays as it is until it is published.
C21_ValidIffCountMatches ==
    [][/\ Len(event_aggregates_complete') > Len(event_aggregates_complete)
          => (/\ event_queue # <<>>
              /\ SubSeq(event_aggregates_complete', 1, Len(event_aggregates_complete))
                    = event_aggregates_complete
              /\ Head(event_queue).ListItems.stated
                    => (Handed.valid
                          <=> (/\ Head(event_queue).ListItems.number
                               /\ Head(event_queue).ListItems.value
                                     = Len(MemberEvents(Handed)))))
       /\ Len(event_aggregates_complete') <= Len(event_aggregates_complete)
          => (\/ event_aggregates_complete' = event_aggregates_complete
              \/ event_aggregates_complete' = Tail(event_aggregates_complete))
      ]_vars

\* C21: a finalised aggregate with a member event and the valid flag set
C21_Witness ==
    \E i \in 1..Len(event_aggregates_complete) :
        /\ event_aggregates_complete[i].valid
        /\ Len(MemberEvents(event_aggregates_complete[i])) = 1

\* ---------------------------------------------------------------- C22
\* C22: the dispatcher takes an event from the events queue only when no
\* finalised aggregate awaits emission, and its iteration after a finalisation
\* emits the aggregate and leaves the events queue as it is; so the aggregate
\* reaches the callbacks before any event dequeued after its finaliser.
C22_AggregateBeforeLaterEvents ==
    [][/\ Len(event_queue') < Len(event_queue) => event_aggregates_complete = <<>>
       /\ (d_pc = "events" /\ d_pc' # "events" /\ event_aggregates_complete # <<>>)
          => (/\ d_event' = AggregateEvent(Head(event_aggregates_complete))
              /\ event_aggregates_complete' = Tail(event_aggregates_complete)
              /\ event_queue' = event_queue)
      ]_vars

\* C22: a finalised aggregate is with the callbacks while an event that arrived
\* after its finaliser waits in the events queue
C22_Witness ==
    /\ d_event.kind = "Aggregate"
    /\ d_pc = "callbacks"
    /\ event_queue # <<>>

\* ---------------------------------------------------------------- C23
\* An aggregate of the ActionID is pending past its deadline. A deadline that
\* has passed stays passed, so such an aggregate is gone only when removed.
ExpiredAggregate(a) ==
    \E i \in 1..Len(event_aggregates) :
        /\ event_aggregates[i].aggregate.action_id = a
        /\ event_aggregates[i].deadline = 0
\* The dispatcher ends a cycle in which it found neither an event nor an
\* orphaned response
IdleCycle == d_pc = "sleep" /\ ~d_worked

C24_HangupSignalBeforeWrite ==
    [][/\ got_sighup => got_sighup'
       /\ (executes' = executes + 1 /\ got_sighup)
          => (/\ g_pc' = "idle"
              /\ g_outcome' = Raised("AGISIGHUPHangup", {})
              /\ wfile' = wfile)
       /\ (executes' = executes + 1 /\ ~got_sighup)
          => (g_pc' = "send" /\ wfile' = wfile)
       /\ wfile' # wfile
          => (/\ ~h_sighup_at_call
              /\ h_writes = 0 /\ h_reads = 0
              /\ wfile' = Append(wfile, g_action.command)
              /\ g_pc' = "read")
       /\ h_reads' > h_reads => (h_writes = 1 /\ ~h_sighup_at_call)
      ]_vars

\* C24: a call wrote its command, the signal arrived, and the next call raised
\* the SIGHUP hangup error with nothing more written
C24_Witness ==
    /\ got_sighup
    /\ executes = 2
    /\ h_sighup_at_call
    /\ g_outcome.error = "AGISIGHUPHangup"
    /\ Len(wfile) = 1

\* ---------------------------------------------------------------- C25
\* A 200 line whose result carries the data 'hangup'
HangupResult(line) == line \in ResultLines /\ line.pairs[1].data = "hangup"

\* C25: when _get_result has parsed a 200 line whose result data is 'hangup',
\* execute raises AGIResultHangup with the parsed items if and only if the
\* action has check_hangup set; without it _get_result returns the Response
\* with these items, which goes to the action's processor.
C25_ResultHangup ==
    (g_pc = "idle" /\ HangupResult(h_line))
        => /\ (g_outcome = Raised("AGIResultHangup", ResponseItems(h_line.pairs)))
                <=> g_action.check_hangup
           /\ ~g_action.check_hangup
                => /\ h_got = Returned("Response", ResponseItems(h_line.pairs), "")
                   /\ g_outcome = Action_process_response(g_action, h_got)

\* C25: a call of an action with check_hangup has raised AGIResultHangup with
\* the items of the line
C25_Witness ==
    /\ g_pc = "idle"
    /\ HangupResult(h_line)
    /\ g_action.check_hangup
    /\ g_outcome.error = "AGIResultHangup"
    /\ g_outcome.items = ResponseItems(h_line.pairs)
    /\ g_outcome.items # {}

\* ---------------------------------------------------------------- C26
\* A 200 line whose result has the value -1
FailureResult(line) == line \in ResultLines /\ line.pairs[1].value = "-1"

\* C26: when _get_result has parsed a 200 line whose result value is -1,
\* execute raises AGIAppError, and no Response reaches the action's processor.
C26_ApplicationError ==
    (g_pc = "idle" /\ FailureResult(h_line))
        => (g_outcome.kind = "raised" /\ g_outcome.error = "AGIAppError"
            /\ h_got.kind = "raised")

\* ---------------------------------------------------------------- C27
\* A line that starts with the code 0, or with no decimal code that _RE_CODE
\* finds
NoCode(line) ==
    /\ line.text \in {"line", "HANGUP"}
    /\ (~RE_CODE(line).matched \/ RE_CODE(line).code = 0)

\* C27 as stated: when _get_result has parsed a line with the code 0 or with
\* no code, execute raises an error derived from AGIHangup.
C27_NoCodeIsHangup ==
    (g_pc = "idle" /\ NoCode(h_line))
        => (g_outcome.kind = "raised" /\ g_outcome.error \in Hangups)

\* C27: when _get_result has parsed a line with the code 0 or with no code, it
\* raises nothing and returns None, and execute hands None to the action's
\* processor: the processor of _Action returns it, that of DatabaseGet fails
\* on it with an AttributeError. No hangup error and no AGIUnknownError is
\* raised.
C27_NoCodeGivesNone ==
    (g_pc = "idle" /\ NoCode(h_line))
        => /\ h_got = Returned("None", {}, "")
           /\ g_outcome = Action_process_response(g_action, h_got)
           /\ g_action.name = "Answer" => g_outcome = Returned("None", {}, "")
           /\ g_action.name = "DatabaseGet" => g_outcome = Raised("AttributeError", {})
           /\ g_outcome.error \notin Hangups \cup {"AGIUnknownError"}

\* C27: a call of Answer that read a line with the code 0 has returned None
C27_Witness ==
    /\ g_pc = "idle"
    /\ h_line = CodeLine(0, <<>>)
    /\ g_action.name = "Answer"
    /\ g_outcome = Returned("None", {}, "")

\* C28 as stated: every read and every write of the connected flag made after
\* construction (by is_connected, by close, and by the closing done on a read
\* or a write failure) happens while the acting thread holds the write lock
\* of the socket.
C28_FlagUnderWriteLock == h_access.kind # "none" => h_access.write_locked

\* The lock a thread waits for is held by the thread `by`
Stalled(t, by) == Wanted(t_pc[t]) # "none" /\ Holder(Wanted(t_pc[t])) = by

\* C29 as stated: the read and the write paths of the socket are independent:
\* a thread blocked inside read_message never keeps a thread in send_message
\* from the lock it needs, and a thread blocked inside send_message never
\* keeps a thread from entering read_message and reading.
C29_PathsIndependent ==
    \A b \in SocketThreads : \A t \in SocketThreads :
        /\ t_pc[b] = "readline" /\ t_op[t] = "send_message" => ~Stalled(t, b)
        /\ t_pc[b] = "sendall" /\ t_op[t] = "read_message" => ~Stalled(t, b)

\* C29 as the code has it: a thread blocked in readline never holds a lock
\* that a thread in send_message waits for; a thread blocked in sendall holds
\* the lock that a thread in read_message waits for exactly while that thread
\* is at the connection test at the head of read_message, and never once it
\* has passed the test.
C29_ReaderNeverStallsSender ==
    \A b \in SocketThreads : \A t \in SocketThreads :
        /\ t_pc[b] = "readline" /\ t_op[t] = "send_message" => ~Stalled(t, b)
        /\ t_pc[b] = "sendall" /\ t_op[t] = "read_message" =>
                (Stalled(t, b) <=> t_pc[t] = "check")

\* One thread is blocked in readline while another is blocked in sendall
C29_Witness == t_pc["reader"] = "readline" /\ t_pc["sender"] = "sendall"

\* The dispatcher ends an idle cycle whose countdown is at 0: a reap pass
ReapPass == d_pc = "sleep" /\ ~d_worked /\ event_aggregate_cycle = 0 /\ d_pc' = "events"
Unexpired(entry) == entry.deadline > 0

\* C30 as stated: immediately after a reap pass the list of pending aggregates
\* holds no aggregate whose deadline was at or before the time of the pass,
\* and every aggregate with a later deadline is still there, in its original
\* relative order.
C30_ReapDiscardsExpired ==
    [][ReapPass => event_aggregates' = SelectSeq(event_aggregates, Unexpired)]_vars

\* send_action ends by raising after line 512 has registered its ActionID: the
\* transmission fails (or finds no connection), or process_response raises
RaisedAfterRegistering == (s_pc = "send" /\ s_pc' = "idle") \/ SendActionRaise

\* C31 as stated: when send_action exits by raising after it has registered
\* its ActionID (a socket-broken error during transmission, or an exception
\* raised by the request's process_response), the ActionID is not left in the
\* outstanding-request table.
C31_RaiseDeregisters ==
    [][RaisedAfterRegistering => outstanding_requests'[s_key].state = "absent"]_vars

\* The dispatcher takes an event from the queue and offers it to the pending
\* aggregates (no synchronous request claims it)
OffersEvent ==
    /\ d_pc = "events"
    /\ event_aggregates_complete = <<>>
    /\ event_queue # <<>>
    /\ event_queue' = Tail(event_queue)
    /\ ~process_outstanding_request_event(outstanding_requests, Head(event_queue)).bound

\* The pending aggregate with the given ActionID holds the given items
PendingWith(aggregates, action_id, items) ==
    \E j \in 1..Len(aggregates) :
        /\ aggregates[j].aggregate.action_id = action_id
        /\ aggregates[j].aggregate.items = items

\* C32 as stated: when two aggregates of the same class with different
\* ActionIDs are pending, each one receives exactly the member and finaliser
\* events that carry its own ActionID, whatever their order in the list and
\* however the events interleave: a member event is appended to the aggregate
\* of its ActionID, a finaliser finalises that aggregate and hands it on for
\* publication, and an aggregate with another ActionID keeps what it has.
C32_EachReceivesItsOwn ==
    [][OffersEvent =>
        \A i \in 1..Len(event_aggregates) :
            LET event == Head(event_queue)
                aggregate == event_aggregates[i].aggregate
            IN  IF aggregate.action_id # event.aid
                THEN PendingWith(event_aggregates', aggregate.action_id, aggregate.items)
                ELSE /\ event.name \in aggregation_members(aggregate.name)
                        => PendingWith(event_aggregates', aggregate.action_id,
                                       StoreListed(aggregate.items, event.name, event.id))
                     /\ event.name \in aggregation_finalisers(aggregate.name)
                        => /\ event_aggregates_complete' # <<>>
                           /\ Handed.action_id = aggregate.action_id
                           /\ Handed.items =
                                 StoreSlot(aggregate.items, event.name, event.id)
      ]_vars

\* C33 as stated: for an asynchronous request with aggregation, under no
\* interleaving of the caller, the reader and the dispatcher does the
\* dispatcher process a member or finaliser event that carries the request's
\* ActionID, sent by the server after it received the request, before the
\* request's aggregate has been added to the pending list.
C33_AggregateAddedFirst ==
    [][OffersEvent /\ Head(event_queue).aid = a_action_id => a_pc # "aggregates"]_vars

\* C34 as stated: the callback registry never contains two equal
\* (kind, key, function) entries, also when several threads call
\* register_callback and unregister_callback for the same definition at the
\* same time.
C34_NoEqualEntries ==
    \A i \in 1..Len(event_callbacks) : \A j \in 1..Len(event_callbacks) :
        i # j => event_callbacks[i] # event_callbacks[j]

\* C35 as stated: when the peer closes the connection, so that reading a line
\* yields the end of the stream (an empty string) without raising,
\* read_message returns or raises in the end and the reader thread of that
\* socket leaves its loop instead of turning forever inside read_message.
C35_PeerCloseEndsReader ==
    \A i \in Sockets : (i <= sockets /\ eof[i]) ~> Exited(i)

\* C36: each response read from the wire has at most one consumer and is
\* consumed at most once: it is never both returned by a send_action call and
\* put on the orphan-response queue, never returned by two send_action calls,
\* and never put on the orphan-response queue twice.
C36_ConsumedAtMostOnce ==
    \A i \in 1..MaxMsgs : h_returned[i] + h_orphaned[i] <= 1

\* C36: one response has been returned by send_action and another one, held
\* for its ActionID past its time, has been moved to the orphan-response queue
C36_Witness ==
    \E i \in 1..MaxMsgs : \E j \in 1..MaxMsgs :
        /\ h_returned[i] = 1
        /\ h_orphaned[j] = 1
        /\ j \in h_expired

\* The lock a thread waits for: it is at an acquire of a lock that is held
WaitsFor(t) ==
    IF OpAt(t).op = "acquire" /\ l_held[OpAt(t).lock] # "none"
    THEN l_held[OpAt(t).lock] ELSE "none"
\* Following who waits for whom from t, n times
RECURSIVE WaitChain(_, _)
WaitChain(t, n) ==
    IF n = 0 \/ t = "none" THEN t ELSE WaitChain(WaitsFor(t), n - 1)
\* The locks acquired, at some time, while lock l was held, and so on
RECURSIVE AcquiredAfter(_, _)
AcquiredAfter(ls, n) ==
    IF n = 0 THEN ls
    ELSE AcquiredAfter(ls \cup {e[2] : e \in {f \in h_order : f[1] \in ls}}, n - 1)

\* C37: the manager's threads never deadlock: the locks are never acquired
\* in a cyclic order, no thread waits for a lock whose holder waits, in turn,
\* for that thread (or for itself), and a callback is called with no lock held
C37_NoDeadlock ==
    /\ \A l \in Locks :
          l \notin AcquiredAfter({e[2] : e \in {f \in h_order : f[1] = l}},
                                 Cardinality(Locks))
    /\ \A t \in LockThreads :
          \A n \in 1..Cardinality(LockThreads) : WaitChain(t, n) # t
    /\ \A t \in LockThreads : OpAt(t).op = "invoke" => HeldBy(t) = {}

\* The dispatcher is inside a send_action that a callback called and holds
\* the connection lock with the socket's write lock; a caller waits for the
\* connection lock; both nestings of the code have been seen
C37_Witness ==
    /\ l_pc["dispatcher"].routine = "send_action"
    /\ l_ret["dispatcher"].routine = "_event_dispatcher"
    /\ HeldBy("dispatcher") = {"connection_lock", "socket_write_lock"}
    /\ WaitsFor("caller") = "dispatcher"
    /\ h_order = {<<"connection_lock", "socket_write_lock">>,
                  <<"connection_lock", "served_requests_lock">>}

\* C38 as stated: an aggregate whose deadline has passed is never published:
\* once the time is past its deadline no later event is folded into it or
\* finalises it, and it is not handed on to be emitted to the callbacks. (A
\* countdown of 0 stands for every time from the deadline on; the evaluation
\* of an event reads no clock.)
C38_ExpiredNeverPublished ==
    [][OffersEvent =>
        \A i \in 1..Len(event_aggregates) :
            event_aggregates[i].deadline = 0 =>
               /\ \E j \in 1..Len(event_aggregates') :
                     event_aggregates'[j] = event_aggregates[i]
               /\ \A j \in 1..Len(event_aggregates_complete') :
                     event_aggregates_complete'[j].action_id
                        # event_aggregates[i].aggregate.action_id]_vars

\* C39 as stated: evaluating an event whose ActionID differs from an
\* aggregate's own ActionID leaves that aggregate entirely unchanged: its
\* member lists, finaliser slots, pending-finaliser set, valid flag and error
\* message are the same before and after evaluate_event. The aggregate at the
\* head of the list is the one every offered event is evaluated against.
C39_ForeignEventChangesNothing ==
    [][(/\ OffersEvent
        /\ event_aggregates # <<>>
        /\ Head(event_aggregates).aggregate.action_id # Head(event_queue).aid)
       => /\ evaluate_event(Head(event_aggregates).aggregate, Head(event_queue)).aggregate
                = Head(event_aggregates).aggregate
          /\ event_aggregates' # <<>>
          /\ Head(event_aggregates').aggregate = Head(event_aggregates).aggregate]_vars

\* read_message starts to read: its lines and its marker flag are set up
StartsReading ==
    \E t \in SocketThreads :
        t_op[t] = "read_message" /\ t_pc[t] = "flag" /\ t_pc'[t] = "read"

\* C40 as stated: a message is framed independently of read timeouts: if a
\* read timeout occurs after some but not all lines of a message have been
\* read, the lines already read are kept, so that the call that reads on
\* starts with them and the message is delivered as one complete message.
C40_TimeoutKeepsLines ==
    [][StartsReading => response_lines' = h_partial]_vars

====
